---- MODULE Spec2Model ----
(***************************************************************************)
(* Model of the shell-compose daemon: the Dispatcher's request handlers,   *)
(* the Runner list, the child Watcher, the cron scheduler thread, the      *)
(* stdout/stderr reader threads with their OutputBuffer, and the Logs      *)
(* streaming handler (src/src/dispatcher.rs, src/src/runner.rs).           *)
(*                                                                         *)
(* Threads: one connection handler at a time (start_ipc_listener calls the *)
(* handler inline and the Dispatcher is borrowed mutably), one Watcher,    *)
(* one cron thread, two readers per spawned process, and the OS processes. *)
(* Every step that runs under the Runner-list mutex is one atomic action.  *)
(***************************************************************************)
EXTENDS Integers, Sequences, FiniteSets, TLC

\* ------------------------------------------------------------ bounds
\* OS processes created in one run (Runner::spawn calls that succeed).
MaxProcs == 3
\* Jobs allocated in one run (calls of add_job).
MaxJobs == 2
\* Jobs allocated in one run of the supervision specifications.
SupJobs == 1
\* Injected environment failures in one run (spawn refused, try_wait error,
\* kill error, recipe file unreadable).
MaxFaults == 1
\* Largest value of the wall clock.
MaxTime == 2
\* Output lines read from the pipes in one run.
MaxLines == 2
\* Polls of one Logs handler that send lines.
MaxPolls == 2
\* Capacity of an OutputBuffer (OutputBuffer::new(Some(max_len))); the code
\* passes 200, push and lines_since are the same for every capacity.
BufCap == 2

\* ------------------------------------------------------------ values
NoTs == 0
NoExit == 0 - 1
ExitCodes == {0, 2}
Policies == {"Always", "OnFailure", "Never"}
Services == {"web", "db"}
Groups == {"all"}
Argvs == {<< >>, <<"sh">>}
CronExprs == {"* * * * * *", "bad"}

Signalled == [sig |-> TRUE, code |-> 0]
Exited(c) == [sig |-> FALSE, code |-> c]
Statuses == {Signalled} \cup {Exited(c) : c \in ExitCodes}

Spawned == [tag |-> "Spawned", code |-> 0]
Running == [tag |-> "Running", code |-> 0]
ExitOk == [tag |-> "ExitOk", code |-> 0]
ExitErr(c) == [tag |-> "ExitErr", code |-> c]
Unknown == [tag |-> "Unknown", code |-> 0]

\* ProcStatus::exited
exited(state) == state.tag \in {"ExitOk", "ExitErr"}

VARIABLES
    jobs,          \* Dispatcher.jobs: JobId -> JobInfo
    last_job_id,   \* Dispatcher.last_job_id
    cronjobs,      \* Dispatcher.cronjobs: the job ids that hold a schedule handle
    scheduler,     \* JobScheduler: the registered schedules, by job id
    procs,         \* Dispatcher.procs: the Runner list
    os,            \* the processes created so far (the GroupChild of each Runner)
    output,        \* the OutputBuffer of each process's Runner
    chan,          \* the mpsc channel of pids, reader threads -> Watcher
    faults,        \* environment failures injected so far
    h_pc,          \* position of the connection handler
    h_req,         \* the request it is handling
    h_job,         \* spawn_job: the job id
    h_run,         \* spawn_job: the Runner returned by Runner::spawn, not yet pushed
    h_todo,        \* up: the services still to start; down: the job ids still to stop
    h_ids,         \* the job ids collected for JobsStarted
    conn,          \* the messages sent on the handler's connection
    w_pc,          \* position of the Watcher
    w_respawn,     \* child_watcher: respawn_child
    w_wait,        \* child_watcher: the Runner whose proc.wait() has not returned, the
                   \* time ts taken at recv (and, as history, the sender of the pid)
    c_pc,          \* position of the cron thread
    c_run,         \* cron callback: the Runner returned by Runner::spawn, not yet pushed
    now,           \* the wall clock (Local::now)
    rd,            \* readers: the line each reader has stamped and not yet pushed
    nline,         \* lines read so far
    last_seen_ts,  \* log: the cursor of each pid
    log_filter,    \* log: job_id_filter (0: none)
    client,        \* whether the Logs client is still connected
    npoll,         \* polls of the Logs handler so far
    delivered,     \* history: the LogLines sent to the Logs client, with their batch
    pushed,        \* history: every line pushed to each OutputBuffer, in push order
    polled,        \* history: how many lines each buffer had been pushed at the last poll
    alloc_log,     \* history: the ids add_job returned, in order
    stopped_ok,    \* history: the job ids for which Stop replied Ok
    waiting,       \* the requests of the connections the listener has not accepted yet
    wire,          \* a stream: the frames written to it and not yet read
    sent,          \* history: the Messages written to the stream
    rcvd,          \* history: what read_serde returned, in order
    cl_pc,         \* the CLI client: where it is in cli()
    cl_cmd,        \* the command given on its command line
    cl_wait_ms,    \* DispatcherProc::wait: wait_ms
    cl_recv,       \* history: the responses it received, in order
    cl_exit,       \* its exit code; NoExit while it runs
    lk_owner,      \* the thread that holds each mutex ("none": free)
    lk_todo,       \* the lock operations each thread still has to do in its current call
    b_run,         \* back-off: the Runner of the service in its current run (<< >>: none)
    b_runs,        \* back-off: the number of runs that ended
    b_pc,          \* back-off: "ok", or "panicked" when the doubling overflowed
    b_wrapped      \* history: a doubling wrapped around 2^64

vars == <<jobs, last_job_id, cronjobs, scheduler, procs, os, output, chan, faults,
          h_pc, h_req, h_job, h_run, h_todo, h_ids, conn, w_pc, w_respawn, w_wait,
          c_pc, c_run, now, rd, nline, last_seen_ts, log_filter, client, npoll,
          delivered, pushed, polled, alloc_log, stopped_ok,
          waiting, wire, sent, rcvd, cl_pc, cl_cmd, cl_wait_ms, cl_recv, cl_exit,
          lk_owner, lk_todo, b_run, b_runs, b_pc, b_wrapped>>

dispVars == <<jobs, last_job_id, cronjobs, scheduler, alloc_log, stopped_ok>>
handVars == <<h_pc, h_req, h_job, h_run, h_todo, h_ids, conn>>
watchVars == <<w_pc, w_respawn, w_wait>>
cronVars == <<c_pc, c_run>>
logVars == <<last_seen_ts, log_filter, client, npoll, delivered, polled>>
readVars == <<rd, nline>>
wireVars == <<wire, sent, rcvd>>
cliVars == <<cl_pc, cl_cmd, cl_wait_ms, cl_recv, cl_exit>>
lockVars == <<lk_owner, lk_todo>>
backVars == <<b_run, b_runs, b_pc, b_wrapped>>

\* ------------------------------------------------------------ pure functions
\* Numbers wider than 31 bits are kept as digits of base 2^16.
Base == 65536

\* A u64 is four digits, the least significant first; u64(n) for n < 2^31.
u64(n) == <<n % Base, n \div Base, 0, 0>>

\* w * 2 in a build without overflow checks: the product modulo 2^64.
wrapping_mul2(w) ==
    LET d1 == 2 * w[1]
        d2 == 2 * w[2] + d1 \div Base
        d3 == 2 * w[3] + d2 \div Base
        d4 == 2 * w[4] + d3 \div Base
    IN <<d1 % Base, d2 % Base, d3 % Base, d4 % Base>>

\* w * 2 does not fit in a u64.
mul2_overflows(w) == 2 * w[4] + (2 * w[3] + (2 * w[2] + (2 * w[1]) \div Base) \div Base) \div Base >= Base

RestartDefault == [policy |-> "OnFailure", wait_time |-> u64(50)]

new_shell_job(args) ==
    [job_type |-> "Shell", name |-> "", args |-> args,
     restart |-> [RestartDefault EXCEPT !.policy = "Never"]]

new_cron_job(cron, args) ==
    [job_type |-> "Cron", name |-> cron, args |-> args,
     restart |-> [RestartDefault EXCEPT !.policy = "Never"]]

new_service_never(service) ==
    [job_type |-> "Service", name |-> service, args |-> <<"just", service>>,
     restart |-> [RestartDefault EXCEPT !.policy = "Never"]]

new_service(service) ==
    [job_type |-> "Service", name |-> service, args |-> <<"just", service>>,
     restart |-> RestartDefault]

\* The id add_job gives the next job.
add_job_id_reuse == IF DOMAIN jobs = {} THEN 1
                    ELSE (CHOOSE j \in DOMAIN jobs : \A k \in DOMAIN jobs : k <= j) + 1
add_job_id == last_job_id + 1

\* Dispatcher::find_job: the first Service job of that name, in key order
\* (find_job_none: as it would be if it never found one).
ServiceJobs(js, service) ==
    {j \in DOMAIN js : js[j].job_type = "Service" /\ js[j].name = service}
find_job_none(js, service) == 0
find_job(js, service) ==
    IF ServiceJobs(js, service) = {} THEN 0
    ELSE CHOOSE j \in ServiceJobs(js, service) : \A k \in ServiceJobs(js, service) : j <= k

\* cron.parse()
CronParses(expr) == expr # "bad"

\* try_wait as it would be if a status once collected were not kept.
try_wait_forgets(k, err) ==
    IF err THEN [r |-> "err", status |-> Signalled]
    ELSE IF os[k].alive \/ os[k].reaped THEN [r |-> "none", status |-> Signalled]
    ELSE [r |-> "some", status |-> os[k].status]

\* The result of GroupChild::try_wait on process k; err: the call fails. A
\* status that try_wait or wait once returned is kept by the GroupChild and
\* returned again, so the actions let the call fail only for a process whose
\* status was not collected yet (not reaped).
try_wait(k, err) ==
    IF err THEN [r |-> "err", status |-> Signalled]
    ELSE IF os[k].alive THEN [r |-> "none", status |-> Signalled]
    ELSE [r |-> "some", status |-> os[k].status]

\* The match of Runner::update_proc_state.
StateOf(tw) ==
    CASE tw.r = "some" /\ ~tw.status.sig /\ tw.status.code = 0 -> ExitOk
      [] tw.r = "some" /\ tw.status.sig -> ExitErr(0)
      [] tw.r = "some" -> ExitErr(tw.status.code)
      [] tw.r = "none" -> Running
      [] OTHER -> Unknown

\* update_proc_state without the test of end.
update_always(r, tw) == [r EXCEPT !.state = StateOf(tw)]

update_proc_state(r, tw) ==
    IF r.end = NoTs THEN [r EXCEPT !.state = StateOf(tw)] ELSE r

\* The respawn decision of child_watcher.
respawn_ignoring_user(user_terminated, policy, state) ==
    CASE policy = "Always" -> TRUE
      [] policy = "OnFailure" -> state.tag = "ExitErr" /\ state.code > 0
      [] OTHER -> FALSE
respawn_never_as_on_failure(user_terminated, policy, state) ==
    ~user_terminated /\
    CASE policy = "Always" -> TRUE
      [] OTHER -> state.tag = "ExitErr" /\ state.code > 0
RespawnDecision(user_terminated, policy, state) ==
    ~user_terminated /\
    CASE policy = "Always" -> TRUE
      [] policy = "OnFailure" -> state.tag = "ExitErr" /\ state.code > 0
      [] OTHER -> FALSE

\* Runner::restart_infos: the restart information of the next run of Runner r,
\* << >> when r is not to be respawned. No caller exists in the dispatcher:
\* child_watcher decides on its own and clones r.restart_info as it is.
ResetThreshold == 50

restart_infos(r) ==
    IF RespawnDecision(r.user_terminated, r.restart_info.policy, r.state)
    THEN LET last_duration == (IF r.end = NoTs THEN now ELSE r.end) - r.start
         IN <<[job_id |-> r.job_id, args |-> r.cmd_args,
               restart_info |-> [r.restart_info EXCEPT !.wait_time =
                                    IF last_duration > ResetThreshold THEN u64(50)
                                    ELSE wrapping_mul2(@)]]>>
    ELSE << >>

\* restart_infos multiplies a wait_time whose double does not fit: a panic in a
\* build with overflow checks, the wrapped product in one without.
restart_infos_overflows(r) ==
    /\ RespawnDecision(r.user_terminated, r.restart_info.policy, r.state)
    /\ (IF r.end = NoTs THEN now ELSE r.end) - r.start <= ResetThreshold
    /\ mul2_overflows(r.restart_info.wait_time)

\* OutputBuffer::push
push_evict_newest(lines, line, max_len) ==
    IF Len(lines) + 1 > max_len THEN lines ELSE Append(lines, line)
push(lines, line, max_len) ==
    LET l == Append(lines, line)
    IN IF Len(l) > max_len THEN Tail(l) ELSE l

\* OutputBuffer::lines_since: the new cursor, and the lines returned.
lines_since_cursor(lines, last_seen) ==
    IF lines = << >> THEN last_seen ELSE lines[Len(lines)].ts

RECURSIVE skip_while_seen(_, _)
skip_while_seen(lines, ts) ==
    IF lines = << >> THEN << >>
    ELSE IF ts >= Head(lines).ts THEN skip_while_seen(Tail(lines), ts)
    ELSE lines

lines_since(lines, last_seen) == skip_while_seen(lines, last_seen)

\* log_lines.sort_by_key(|entry| entry.ts): a stable sort by ts.
RECURSIVE insert_by_ts(_, _)
insert_by_ts(sorted, e) ==
    IF sorted = << >> THEN <<e>>
    ELSE IF sorted[Len(sorted)].ts <= e.ts THEN Append(sorted, e)
    ELSE Append(insert_by_ts(SubSeq(sorted, 1, Len(sorted) - 1), e), sorted[Len(sorted)])

RECURSIVE sort_rec(_, _)
sort_rec(lines, acc) ==
    IF lines = << >> THEN acc ELSE sort_rec(Tail(lines), insert_by_ts(acc, Head(lines)))

sort_unsorted(lines) == lines
sort_by_key_ts(lines) == sort_rec(lines, << >>)

\* ------------------------------------------------------------ helpers
Msg(t, ids, err, code, infos) ==
    [t |-> t, ids |-> ids, err |-> err, code |-> code, infos |-> infos]
JobsStarted(ids) == Msg("JobsStarted", ids, "", 0, << >>)
OkMsg == Msg("Ok", << >>, "", 0, << >>)
ErrMsg(e) == Msg("Err", << >>, e, 0, << >>)
ErrCode(e, c) == Msg("Err", << >>, e, c, << >>)
PsInfoMsg(infos) == Msg("PsInfo", << >>, "", 0, infos)
JobInfoMsg(infos) == Msg("JobInfo", << >>, "", 0, infos)

\* ProcInfo, as Ps clones it.
ProcInfo(r) == [job_id |-> r.job_id, pid |-> r.pid, cmd_args |-> r.cmd_args,
                state |-> r.state, start |-> r.start, end |-> r.end]

\* The Runner that Runner::spawn returns for process k. origin, parent and
\* ends are history fields: who spawned it, (for a respawn) the index in the
\* Runner list of the Runner whose ProcInfo the Watcher cloned, and for each
\* write of its end by the Watcher the process whose reader had sent the pid
\* and whether proc.wait() had blocked.
NewRunner(k, pid, job_id, args, restart, origin, parent) ==
    [proc |-> k, job_id |-> job_id, pid |-> pid, cmd_args |-> args,
     state |-> Spawned, start |-> now, end |-> NoTs, restart_info |-> restart,
     user_terminated |-> FALSE, origin |-> origin, parent |-> parent, ends |-> << >>]

NewProcess(pid) ==
    [pid |-> pid, alive |-> TRUE, status |-> Signalled, reaped |-> FALSE, eof |-> FALSE]

NoLine == << >>
NewReaders(job_id) == [job_id |-> job_id, out |-> NoLine, err |-> NoLine]

\* The pids the OS may give a new process, the processes being o: a fresh
\* one, or the pid of a process that was reaped and is held by no other.
PidChoices(o) ==
    {Len(o) + 1} \cup
    ({o[k].pid : k \in {i \in 1..Len(o) : o[i].reaped}}
        \ {o[k].pid : k \in {i \in 1..Len(o) : ~o[i].reaped}})

\* The processes o after try_wait or wait returned a status for those in S.
Reap(o, S) ==
    [k \in 1..Len(o) |-> IF k \in S /\ ~o[k].alive THEN [o[k] EXCEPT !.reaped = TRUE]
                         ELSE o[k]]

SetJob(js, id, info) ==
    [j \in DOMAIN js \cup {id} |-> IF j = id THEN info ELSE js[j]]
RemoveJob(js, id) == [j \in DOMAIN js \ {id} |-> js[j]]

Min(S) == CHOOSE x \in S : \A y \in S : x <= y

\* The daemon process is running (no panic of the listener thread).
DaemonAlive == h_pc \notin {"dead", "exited"}

\* The Runner-list mutex is held by the Watcher, blocked in proc.wait().
ProcsLocked == w_pc = "wait"

\* The scheduler mutex as it would be if tick did not hold it over the callback.
SchedulerUnlocked == FALSE

\* The scheduler mutex is held by the cron thread: tick is running a callback.
SchedulerLocked == c_pc = "spawned"

\* A step of another thread is taken. The handler's return after its last
\* send touches no shared state and commutes with every such step, so the
\* return is taken first.
EnvStep == DaemonAlive /\ h_pc # "done"

\* The recipes of a group; the order of HashMap::values is not fixed.
GroupRecipes(group) ==
    IF group = "all" THEN {<<"web", "db">>, <<"db", "web">>} ELSE {<< >>}

\* listener.incoming(): the listener takes the next connection, whose request
\* is req: the oldest one waiting, or that of a client connecting just now.
Accept(req) ==
    /\ IF waiting = << >> THEN TRUE ELSE Head(waiting) = req
    /\ waiting' = IF waiting = << >> THEN waiting ELSE Tail(waiting)

\* The mutexes of the daemon: the JobScheduler, the Runner list and the
\* OutputBuffer of a Runner; and the threads that lock them: the connection
\* handler, the cron thread, the Watcher and the two readers of a Runner.
Mutexes == {"scheduler", "procs", "output"}
LockThreads == {"handler", "cron", "watcher", "stdout", "stderr"}

\* ------------------------------------------------------------ Init
Init ==
    /\ jobs = << >>
    /\ last_job_id = 0
    /\ cronjobs = {}
    /\ scheduler = << >>
    /\ procs = << >>
    /\ os = << >>
    /\ output = << >>
    /\ chan = << >>
    /\ faults = 0
    /\ h_pc = "idle"
    /\ h_req = ""
    /\ h_job = 0
    /\ h_run = << >>
    /\ h_todo = << >>
    /\ h_ids = << >>
    /\ conn = << >>
    /\ w_pc = "idle"
    /\ w_respawn = << >>
    /\ w_wait = << >>
    /\ c_pc = "idle"
    /\ c_run = << >>
    /\ now = 1
    /\ rd = << >>
    /\ nline = 0
    /\ last_seen_ts = << >>
    /\ log_filter = 0
    /\ client = FALSE
    /\ npoll = 0
    /\ delivered = << >>
    /\ pushed = << >>
    /\ polled = << >>
    /\ alloc_log = << >>
    /\ stopped_ok = {}
    /\ waiting = << >>
    /\ wire = << >>
    /\ sent = << >>
    /\ rcvd = << >>
    /\ cl_pc = "init"
    /\ cl_cmd = ""
    /\ cl_wait_ms = 0
    /\ cl_recv = << >>
    /\ cl_exit = NoExit
    /\ lk_owner = [m \in Mutexes |-> "none"]
    /\ lk_todo = [t \in LockThreads |-> << >>]
    /\ b_run = << >>
    /\ b_runs = 0
    /\ b_pc = "ok"
    /\ b_wrapped = FALSE

\* ------------------------------------------------------------ handler steps
\* The handler sends its last message; the connection is closed by HandlerDone.
Reply(m) == h_pc' = "done" /\ conn' = Append(conn, m)

\* Dispatcher::spawn_job up to the return of Runner::spawn, for job job_id with
\* JobInfo info, the processes being o. fail: the OS refuses the spawn.
SpawnJobStart(job_id, info, o, fail, pid) ==
    /\ h_job' = job_id
    /\ IF info.args = << >>
       THEN /\ Reply(ErrMsg("Empty command"))
            /\ os' = o
            /\ UNCHANGED <<output, pushed, rd, h_run>>
       ELSE IF fail
       THEN /\ Reply(ErrMsg("Failed to spawn process"))
            /\ os' = o
            /\ UNCHANGED <<output, pushed, rd, h_run>>
       ELSE /\ Len(o) < MaxProcs
            /\ pid \in PidChoices(o)
            /\ os' = Append(o, NewProcess(pid))
            /\ output' = Append(output, << >>)
            /\ pushed' = Append(pushed, << >>)
            /\ rd' = Append(rd, NewReaders(job_id))
            /\ h_run' = <<NewRunner(Len(o) + 1, pid, job_id, info.args, info.restart,
                                     "handler", 0)>>
            /\ h_pc' = "spawned"
            /\ conn' = conn

\* The inputs of a spawn are canonical when the spawn is not reached.
SpawnInputs(args, o, fail, pid) ==
    /\ fail => args # << >> /\ faults < MaxFaults
    /\ (fail \/ args = << >>) => pid = Len(o) + 1

\* Dispatcher::run
ReqRun(args, fail, pid) ==
    /\ DaemonAlive /\ h_pc = "idle"
    /\ last_job_id < MaxJobs
    /\ SpawnInputs(args, os, fail, pid)
    /\ h_req' = "Run"
    /\ last_job_id' = add_job_id
    /\ jobs' = SetJob(jobs, add_job_id, new_shell_job(args))
    /\ alloc_log' = Append(alloc_log, add_job_id)
    /\ SpawnJobStart(add_job_id, new_shell_job(args), os, fail, pid)
    /\ faults' = faults + (IF fail THEN 1 ELSE 0)
    /\ UNCHANGED <<cronjobs, scheduler, stopped_ok, procs, chan, h_todo, h_ids, now, nline>>
    /\ UNCHANGED <<watchVars, cronVars, logVars>>
    /\ Accept("Run")
    /\ UNCHANGED <<wireVars, cliVars, lockVars, backVars>>

\* Dispatcher::spawn_job: self.procs.lock().push(child)
SpawnJobPush ==
    /\ DaemonAlive /\ h_pc = "spawned" /\ ~ProcsLocked
    /\ procs' = Append(procs, h_run[1])
    /\ h_run' = << >>
    /\ h_pc' = "startup"
    /\ UNCHANGED <<dispVars, os, output, pushed, chan, faults, h_req, h_job, h_todo, h_ids, conn,
                   now>>
    /\ UNCHANGED <<watchVars, cronVars, logVars, readVars>>
    /\ UNCHANGED waiting
    /\ UNCHANGED <<wireVars, cliVars, lockVars, backVars>>

\* Dispatcher::spawn_job after the 10 ms sleep: the state of procs.last(), and
\* the return of run / start / the next turn of the loop of up.
SpawnJobCheck ==
    /\ DaemonAlive /\ h_pc = "startup" /\ ~ProcsLocked
    /\ LET last == procs[Len(procs)]
       IN IF last.state.tag = "ExitErr"
          THEN /\ Reply(ErrCode("Process exit code", last.state.code))
               /\ UNCHANGED <<h_ids>>
          ELSE /\ h_ids' = Append(h_ids, h_job)
               /\ IF h_todo = << >>
                  THEN Reply(JobsStarted(Append(h_ids, h_job)))
                  ELSE h_pc' = "up" /\ conn' = conn
    /\ UNCHANGED <<dispVars, procs, os, output, pushed, chan, faults, h_req, h_job, h_run, h_todo,
                   now>>
    /\ UNCHANGED <<watchVars, cronVars, logVars, readVars>>
    /\ UNCHANGED waiting
    /\ UNCHANGED <<wireVars, cliVars, lockVars, backVars>>

\* The connection handler returns: the stream is dropped, the next connection
\* is accepted.
HandlerDone ==
    /\ DaemonAlive /\ h_pc = "done"
    /\ h_pc' = "idle"
    /\ h_req' = ""
    /\ h_job' = 0
    /\ h_todo' = << >>
    /\ h_ids' = << >>
    /\ conn' = << >>
    /\ UNCHANGED <<dispVars, procs, os, output, pushed, chan, faults, h_run, now>>
    /\ UNCHANGED <<watchVars, cronVars, logVars, readVars>>
    /\ UNCHANGED waiting
    /\ UNCHANGED <<wireVars, cliVars, lockVars, backVars>>

\* Dispatcher::run_at. The scheduler mutex is taken before the expression is
\* parsed: the handler waits while the cron thread holds it, and panics on
\* expect("lock") when the cron thread panicked holding it.
ReqRunat(expr, args) ==
    /\ DaemonAlive /\ h_pc = "idle"
    /\ last_job_id < MaxJobs
    /\ ~SchedulerLocked
    /\ h_req' = "Runat"
    /\ h_job' = add_job_id
    /\ last_job_id' = add_job_id
    /\ jobs' = SetJob(jobs, add_job_id, new_cron_job(expr, args))
    /\ alloc_log' = Append(alloc_log, add_job_id)
    /\ IF c_pc = "panicked"
       THEN /\ h_pc' = "dead"
            /\ UNCHANGED <<cronjobs, scheduler, conn>>
       ELSE IF ~CronParses(expr)
       THEN /\ Reply(ErrMsg("Cron error"))
            /\ UNCHANGED <<cronjobs, scheduler>>
       ELSE /\ scheduler' = SetJob(scheduler, add_job_id,
                                   [args |-> args, restart |-> new_cron_job(expr, args).restart])
            /\ cronjobs' = cronjobs \cup {add_job_id}
            /\ Reply(JobsStarted(<<add_job_id>>))
    /\ UNCHANGED <<stopped_ok, procs, os, output, pushed, chan, faults, h_run, h_todo, h_ids, now>>
    /\ UNCHANGED <<watchVars, cronVars, logVars, readVars>>
    /\ Accept("Runat")
    /\ UNCHANGED <<wireVars, cliVars, lockVars, backVars>>

\* Dispatcher::start for one service, then rest (the services up still has to
\* start). e: the index of the Runner whose try_wait fails (0: none); fail: the
\* OS refuses the spawn; pid: the pid the OS gives.
DoStart(service, rest, e, fail, pid) ==
    LET found == find_job(jobs, service)
        job_id == IF found # 0 THEN found ELSE add_job_id
        js == IF found # 0 THEN jobs ELSE SetJob(jobs, job_id, new_service(service))
        upd(i) == update_proc_state(procs[i], try_wait(procs[i].proc, i = e))
        mine == {i \in 1..Len(procs) : procs[i].job_id = job_id}
        runs == {i \in mine : ~exited(upd(i).state)}
        \* any() stops at the first Runner of the job that is running
        touched == {i \in mine : runs = {} \/ i <= Min(runs)}
        waited == {procs[i].proc : i \in {x \in touched : x # e /\ procs[x].end = NoTs}}
        os1 == Reap(os, waited)
    IN  /\ ~ProcsLocked
        /\ found = 0 => last_job_id < MaxJobs
        /\ e # 0 => e \in touched /\ procs[e].end = NoTs /\ ~os[procs[e].proc].reaped
        /\ faults + (IF e # 0 THEN 1 ELSE 0) + (IF fail THEN 1 ELSE 0) <= MaxFaults
        /\ (fail \/ runs # {}) => pid = Len(os) + 1
        /\ fail => runs = {}
        /\ faults' = faults + (IF e # 0 THEN 1 ELSE 0) + (IF fail THEN 1 ELSE 0)
        /\ jobs' = js
        /\ last_job_id' = IF found # 0 THEN last_job_id ELSE job_id
        /\ alloc_log' = IF found # 0 THEN alloc_log ELSE Append(alloc_log, job_id)
        /\ procs' = [i \in 1..Len(procs) |-> IF i \in touched THEN upd(i) ELSE procs[i]]
        /\ h_todo' = rest
        /\ IF runs # {}
           THEN /\ os' = os1
                /\ h_job' = job_id
                /\ UNCHANGED <<output, pushed, rd, h_run>>
                /\ IF rest = << >>
                   THEN Reply(JobsStarted(h_ids))
                   ELSE h_pc' = "up" /\ conn' = conn
           ELSE SpawnJobStart(job_id, js[job_id], os1, fail, pid)
        /\ UNCHANGED <<cronjobs, scheduler, stopped_ok, chan, h_ids, now, nline>>
        /\ UNCHANGED <<watchVars, cronVars, logVars>>

ReqStart(service, e, fail, pid) ==
    /\ DaemonAlive /\ h_pc = "idle"
    /\ h_req' = "Start"
    /\ DoStart(service, << >>, e, fail, pid)
    /\ Accept("Start")
    /\ UNCHANGED <<wireVars, cliVars, lockVars, backVars>>

\* Dispatcher::up: Justfile::parse and group_recipes. fail: the recipe file
\* cannot be read.
ReqUp(group, recipes, fail) ==
    /\ DaemonAlive /\ h_pc = "idle"
    /\ recipes \in GroupRecipes(group)
    /\ fail => faults < MaxFaults /\ recipes = (CHOOSE r \in GroupRecipes(group) : TRUE)
    /\ h_req' = "Up"
    /\ faults' = faults + (IF fail THEN 1 ELSE 0)
    /\ IF fail
       THEN Reply(ErrMsg("Justfile error")) /\ UNCHANGED h_todo
       ELSE IF recipes = << >>
       THEN Reply(JobsStarted(<< >>)) /\ UNCHANGED h_todo
       ELSE h_pc' = "up" /\ h_todo' = recipes /\ conn' = conn
    /\ UNCHANGED <<dispVars, procs, os, output, pushed, chan, h_job, h_run, h_ids, now>>
    /\ UNCHANGED <<watchVars, cronVars, logVars, readVars>>
    /\ Accept("Up")
    /\ UNCHANGED <<wireVars, cliVars, lockVars, backVars>>

\* Dispatcher::up: one turn of the loop over the recipes.
UpStep(e, fail, pid) ==
    /\ DaemonAlive /\ h_pc = "up"
    /\ h_req' = h_req
    /\ DoStart(Head(h_todo), Tail(h_todo), e, fail, pid)
    /\ UNCHANGED waiting
    /\ UNCHANGED <<wireVars, cliVars, lockVars, backVars>>

\* Dispatcher::stop for job_id, called by request req; rest: the job ids
\* down still has to stop. e: the index of the Runner whose try_wait fails,
\* f: the index of the Runner whose kill fails (0: none); ks: the exit status
\* of the killed processes (the signal, or the code of a process that exited
\* on its own between is_running and the kill).
DoStop(req, job_id, rest, e, f, ks) ==
    LET mine == {i \in 1..Len(procs) : procs[i].job_id = job_id}
        upd(i) == update_proc_state(procs[i], try_wait(procs[i].proc, i = e))
        runs(i) == ~exited(upd(i).state)
        done == {i \in mine : f = 0 \/ i <= f}
        killed == {i \in done : runs(i) /\ i # f}
        waited == {procs[i].proc : i \in {x \in done : x # e /\ procs[x].end = NoTs}}
        os1 == Reap(os, waited)
        has_cron == job_id \in cronjobs
    IN  /\ has_cron => ~SchedulerLocked
        /\ h_req' = req
        /\ cronjobs' = cronjobs \ {job_id}
        /\ IF has_cron /\ c_pc = "panicked"
           THEN /\ h_pc' = "dead"
                /\ e = 0 /\ f = 0 /\ ks = Signalled
                /\ UNCHANGED <<jobs, scheduler, stopped_ok, procs, os, faults, conn, h_todo>>
           ELSE /\ ~ProcsLocked
                /\ e # 0 => e \in done /\ procs[e].end = NoTs /\ ~os[procs[e].proc].reaped
                /\ f # 0 => f \in mine /\ runs(f)
                /\ faults + (IF e # 0 THEN 1 ELSE 0) + (IF f # 0 THEN 1 ELSE 0) <= MaxFaults
                /\ (\A i \in killed : ~os[procs[i].proc].alive) => ks = Signalled
                /\ faults' = faults + (IF e # 0 THEN 1 ELSE 0) + (IF f # 0 THEN 1 ELSE 0)
                /\ scheduler' = RemoveJob(scheduler, job_id)
                /\ procs' = [i \in 1..Len(procs) |->
                               IF i \notin done THEN procs[i]
                               ELSE IF runs(i) THEN [upd(i) EXCEPT !.user_terminated = TRUE]
                               ELSE upd(i)]
                /\ os' = [k \in 1..Len(os) |->
                            IF \E i \in killed : procs[i].proc = k /\ os[k].alive
                            THEN [os[k] EXCEPT !.alive = FALSE, !.status = ks]
                            ELSE os1[k]]
                /\ IF f # 0
                   THEN /\ Reply(ErrMsg("Failed to terminate child process"))
                        /\ UNCHANGED <<jobs, stopped_ok, h_todo>>
                   ELSE IF job_id \notin DOMAIN jobs
                   THEN /\ Reply(ErrMsg("Job not found"))
                        /\ UNCHANGED <<jobs, stopped_ok, h_todo>>
                   ELSE /\ jobs' = RemoveJob(jobs, job_id)
                        /\ stopped_ok' = IF req = "Stop" THEN stopped_ok \cup {job_id}
                                         ELSE stopped_ok
                        /\ h_todo' = rest
                        /\ IF rest = << >> THEN Reply(OkMsg)
                           ELSE h_pc' = "down" /\ conn' = conn
        /\ UNCHANGED <<last_job_id, alloc_log, output, pushed, chan, h_job, h_run, h_ids, now>>
        /\ UNCHANGED <<watchVars, cronVars, logVars, readVars>>

ReqStop(job_id, e, f, ks) ==
    /\ DaemonAlive /\ h_pc = "idle"
    /\ DoStop("Stop", job_id, << >>, e, f, ks)
    /\ Accept("Stop")
    /\ UNCHANGED <<wireVars, cliVars, lockVars, backVars>>

\* The ids of S in key order (BTreeMap::iter).
RECURSIVE SortedIds(_)
SortedIds(S) == IF S = {} THEN << >> ELSE <<Min(S)>> \o SortedIds(S \ {Min(S)})

\* The ids of the Service jobs named by the recipes, as down collects them.
RECURSIVE DownJobIds(_, _)
DownJobIds(js, recipes) ==
    IF recipes = << >> THEN << >>
    ELSE SortedIds(ServiceJobs(js, Head(recipes))) \o DownJobIds(js, Tail(recipes))

\* Dispatcher::down: Justfile::parse, group_recipes, and the job ids.
ReqDown(group, recipes, fail) ==
    /\ DaemonAlive /\ h_pc = "idle"
    /\ recipes \in GroupRecipes(group)
    /\ fail => faults < MaxFaults /\ recipes = (CHOOSE r \in GroupRecipes(group) : TRUE)
    /\ h_req' = "Down"
    /\ faults' = faults + (IF fail THEN 1 ELSE 0)
    /\ IF fail
       THEN Reply(ErrMsg("Justfile error")) /\ UNCHANGED h_todo
       ELSE IF DownJobIds(jobs, recipes) = << >>
       THEN Reply(OkMsg) /\ UNCHANGED h_todo
       ELSE h_pc' = "down" /\ h_todo' = DownJobIds(jobs, recipes) /\ conn' = conn
    /\ UNCHANGED <<dispVars, procs, os, output, pushed, chan, h_job, h_run, h_ids, now>>
    /\ UNCHANGED <<watchVars, cronVars, logVars, readVars>>
    /\ Accept("Down")
    /\ UNCHANGED <<wireVars, cliVars, lockVars, backVars>>

\* Dispatcher::down: one turn of the loop over the job ids.
DownStep(e, f, ks) ==
    /\ DaemonAlive /\ h_pc = "down"
    /\ DoStop("Down", Head(h_todo), Tail(h_todo), e, f, ks)
    /\ UNCHANGED waiting
    /\ UNCHANGED <<wireVars, cliVars, lockVars, backVars>>

\* Dispatcher::ps, from the second lock of the Runner list on: every Runner's
\* state is updated, newest first, and the snapshot is sent, then Ok.
\* e: the index of the Runner whose try_wait fails (0: none).
keep_order(q) == q

RECURSIVE Reverse(_)
Reverse(q) == IF q = << >> THEN << >> ELSE Append(Reverse(Tail(q)), Head(q))

ReqPs(e) ==
    /\ DaemonAlive /\ h_pc = "idle" /\ ~ProcsLocked
    /\ e # 0 => /\ e \in 1..Len(procs) /\ procs[e].end = NoTs /\ faults < MaxFaults
                /\ ~os[procs[e].proc].reaped
    /\ h_req' = "Ps"
    /\ faults' = faults + (IF e # 0 THEN 1 ELSE 0)
    /\ procs' = [i \in 1..Len(procs) |->
                   update_proc_state(procs[i], try_wait(procs[i].proc, i = e))]
    /\ os' = Reap(os, {procs[i].proc : i \in {x \in 1..Len(procs) :
                                               x # e /\ procs[x].end = NoTs}})
    /\ h_pc' = "done"
    /\ conn' = <<PsInfoMsg(Reverse([i \in 1..Len(procs) |-> ProcInfo(procs'[i])])), OkMsg>>
    /\ UNCHANGED <<dispVars, output, pushed, chan, h_job, h_run, h_todo, h_ids, now>>
    /\ UNCHANGED <<watchVars, cronVars, logVars, readVars>>
    /\ Accept("Ps")
    /\ UNCHANGED <<wireVars, cliVars, lockVars, backVars>>

\* Dispatcher::jobs: the registry, highest id first, is sent, then Ok.
ReqJobs ==
    /\ DaemonAlive /\ h_pc = "idle"
    /\ h_req' = "Jobs"
    /\ h_pc' = "done"
    /\ conn' = <<JobInfoMsg(LET ids == Reverse(SortedIds(DOMAIN jobs))
                            IN [n \in 1..Len(ids) |-> [id |-> ids[n], info |-> jobs[ids[n]]]]),
                 OkMsg>>
    /\ UNCHANGED <<dispVars, procs, os, output, pushed, chan, faults, h_job, h_run, h_todo,
                   h_ids, now>>
    /\ UNCHANGED <<watchVars, cronVars, logVars, readVars>>
    /\ Accept("Jobs")
    /\ UNCHANGED <<wireVars, cliVars, lockVars, backVars>>

\* CliCommand::Exit => std::process::exit(0): the daemon process ends inside
\* the match of cli_command, before the send that follows it.
ReqExit ==
    /\ DaemonAlive /\ h_pc = "idle"
    /\ h_req' = "Exit"
    /\ h_pc' = "exited"
    /\ UNCHANGED <<dispVars, procs, os, output, pushed, chan, faults, h_job, h_run, h_todo,
                   h_ids, conn, now>>
    /\ UNCHANGED <<watchVars, cronVars, logVars, readVars>>
    /\ Accept("Exit")
    /\ UNCHANGED <<wireVars, cliVars, lockVars, backVars>>

\* ------------------------------------------------------------ Watcher
\* child_watcher from the return of proc.wait() to the respawn decision, under
\* the Runner-list mutex, for the Runner i found and the time ts taken at
\* recv; src is the process whose reader sent the pid, blocked whether
\* proc.wait() had to wait. proc.wait() returns when the process of Runner i
\* has exited. e: try_wait fails.
WatcherReap(i, ts, src, blocked, e) ==
    LET k == procs[i].proc
        r1 == update_proc_state(procs[i], try_wait(k, e))
        r2 == [r1 EXCEPT !.end = ts, !.ends = Append(@, [src |-> src, blocked |-> blocked])]
    IN /\ ~os[k].alive
       /\ e => faults < MaxFaults /\ procs[i].end = NoTs /\ ~os[k].reaped
       /\ faults' = faults + (IF e THEN 1 ELSE 0)
       /\ procs' = [procs EXCEPT ![i] = r2]
       /\ os' = Reap(os, {k})
       /\ IF RespawnDecision(r2.user_terminated, r2.restart_info.policy, r2.state)
          THEN /\ w_pc' = "sleep"
               /\ w_respawn' = <<[info |-> ProcInfo(r2),
                                  restart_info |-> r2.restart_info,
                                  parent |-> i]>>
          ELSE /\ w_pc' = "idle"
               /\ UNCHANGED w_respawn

\* child_watcher from recv to the respawn decision when proc.wait() returns
\* at once. The first Runner with the pid is taken. e: try_wait fails.
WatcherRecv(e) ==
    /\ EnvStep /\ w_pc = "idle" /\ chan # << >>
    /\ chan' = Tail(chan)
    /\ LET found == {i \in 1..Len(procs) : procs[i].pid = Head(chan).pid}
       IN IF found = {}
          THEN /\ e = FALSE
               /\ UNCHANGED <<procs, os, faults, w_pc, w_respawn>>
          ELSE WatcherReap(Min(found), now, Head(chan).src, FALSE, e)
    /\ UNCHANGED w_wait
    /\ UNCHANGED <<dispVars, output, pushed, now>>
    /\ UNCHANGED <<handVars, cronVars, logVars, readVars>>
    /\ UNCHANGED waiting
    /\ UNCHANGED <<wireVars, cliVars, lockVars, backVars>>

\* child_watcher from recv to proc.wait() when the process of the Runner
\* found is still running: the Watcher blocks in wait() holding the mutex.
WatcherBlock ==
    /\ EnvStep /\ w_pc = "idle" /\ chan # << >>
    /\ LET found == {i \in 1..Len(procs) : procs[i].pid = Head(chan).pid}
       IN /\ found # {}
          /\ os[procs[Min(found)].proc].alive
          /\ w_wait' = <<[runner |-> Min(found), ts |-> now, src |-> Head(chan).src]>>
    /\ chan' = Tail(chan)
    /\ w_pc' = "wait"
    /\ UNCHANGED <<dispVars, procs, os, output, pushed, faults, now, w_respawn>>
    /\ UNCHANGED <<handVars, cronVars, logVars, readVars>>
    /\ UNCHANGED waiting
    /\ UNCHANGED <<wireVars, cliVars, lockVars, backVars>>

\* proc.wait() returns: the process has exited at last.
WatcherWake(e) ==
    /\ EnvStep /\ w_pc = "wait"
    /\ WatcherReap(w_wait[1].runner, w_wait[1].ts, w_wait[1].src, TRUE, e)
    /\ w_wait' = << >>
    /\ UNCHANGED <<dispVars, output, pushed, chan, now>>
    /\ UNCHANGED <<handVars, cronVars, logVars, readVars>>
    /\ UNCHANGED waiting
    /\ UNCHANGED <<wireVars, cliVars, lockVars, backVars>>

\* child_watcher after the sleep of wait_time: Runner::spawn and the push.
\* fail: the OS refuses the spawn (the error is logged).
WatcherRespawn(fail, pid) ==
    /\ EnvStep /\ w_pc = "sleep"
    /\ w_pc' = "idle"
    /\ w_respawn' = << >>
    /\ UNCHANGED w_wait
    /\ fail => faults < MaxFaults /\ pid = Len(os) + 1
    /\ faults' = faults + (IF fail THEN 1 ELSE 0)
    /\ IF fail
       THEN UNCHANGED <<procs, os, output, pushed, rd>>
       ELSE /\ Len(os) < MaxProcs
            /\ pid \in PidChoices(os)
            /\ os' = Append(os, NewProcess(pid))
            /\ output' = Append(output, << >>)
            /\ pushed' = Append(pushed, << >>)
            /\ rd' = Append(rd, NewReaders(w_respawn[1].info.job_id))
            /\ procs' = Append(procs,
                   NewRunner(Len(os) + 1, pid, w_respawn[1].info.job_id,
                             w_respawn[1].info.cmd_args, w_respawn[1].restart_info,
                             "watcher", w_respawn[1].parent))
    /\ UNCHANGED <<dispVars, chan, now, nline>>
    /\ UNCHANGED <<handVars, cronVars, logVars>>
    /\ UNCHANGED waiting
    /\ UNCHANGED <<wireVars, cliVars, lockVars, backVars>>

\* ------------------------------------------------------------ cron thread
\* cron_scheduler: tick runs the callback of a due schedule under the
\* scheduler mutex: Runner::spawn(..).unwrap(). fail: the OS refuses the spawn.
CronFire(j, fail, pid) ==
    /\ EnvStep /\ c_pc = "idle"
    /\ j \in DOMAIN scheduler
    /\ fail => faults < MaxFaults /\ scheduler[j].args # << >>
    /\ (fail \/ scheduler[j].args = << >>) => pid = Len(os) + 1
    /\ faults' = faults + (IF fail THEN 1 ELSE 0)
    /\ IF fail \/ scheduler[j].args = << >>
       THEN /\ c_pc' = "panicked"
            /\ UNCHANGED <<os, output, pushed, rd, c_run>>
       ELSE /\ Len(os) < MaxProcs
            /\ pid \in PidChoices(os)
            /\ os' = Append(os, NewProcess(pid))
            /\ output' = Append(output, << >>)
            /\ pushed' = Append(pushed, << >>)
            /\ rd' = Append(rd, NewReaders(j))
            /\ c_run' = <<NewRunner(Len(os) + 1, pid, j, scheduler[j].args,
                                    scheduler[j].restart, "cron", 0)>>
            /\ c_pc' = "spawned"
    /\ UNCHANGED <<dispVars, procs, chan, now, nline>>
    /\ UNCHANGED <<handVars, watchVars, logVars>>
    /\ UNCHANGED waiting
    /\ UNCHANGED <<wireVars, cliVars, lockVars, backVars>>

\* The callback: procs.lock().push(child); tick returns.
CronPush ==
    /\ EnvStep /\ c_pc = "spawned" /\ ~ProcsLocked
    /\ procs' = Append(procs, c_run[1])
    /\ c_run' = << >>
    /\ c_pc' = "idle"
    /\ UNCHANGED <<dispVars, os, output, pushed, chan, faults, now>>
    /\ UNCHANGED <<handVars, watchVars, logVars, readVars>>
    /\ UNCHANGED waiting
    /\ UNCHANGED <<wireVars, cliVars, lockVars, backVars>>

\* ------------------------------------------------------------ processes, readers
\* Process k exits on its own with code c.
ProcExit(k, c) ==
    /\ h_pc # "done"
    /\ k \in 1..Len(os) /\ os[k].alive
    /\ os' = [os EXCEPT ![k].alive = FALSE, ![k].status = Exited(c)]
    /\ UNCHANGED <<dispVars, procs, output, pushed, chan, faults, now>>
    /\ UNCHANGED <<handVars, watchVars, cronVars, logVars, readVars>>
    /\ UNCHANGED waiting
    /\ UNCHANGED <<wireVars, cliVars, lockVars, backVars>>

LogLine(ts, job_id, pid, is_stderr, id) ==
    [ts |-> ts, job_id |-> job_id, pid |-> pid, is_stderr |-> is_stderr, id |-> id]

\* output_listener: a reader takes a line from its pipe and stamps it.
ReadLine(k, s) ==
    /\ EnvStep
    /\ k \in 1..Len(os)
    /\ s = "out" => ~os[k].eof
    /\ rd[k][s] = NoLine
    /\ nline < MaxLines
    /\ nline' = nline + 1
    /\ rd' = [rd EXCEPT ![k][s] = <<LogLine(now, rd[k].job_id, os[k].pid, s = "err", nline + 1)>>]
    /\ UNCHANGED <<dispVars, procs, os, output, pushed, chan, faults, now>>
    /\ UNCHANGED <<handVars, watchVars, cronVars, logVars>>
    /\ UNCHANGED waiting
    /\ UNCHANGED <<wireVars, cliVars, lockVars, backVars>>

\* output_listener: the reader locks the buffer and pushes the line.
PushLine(k, s) ==
    /\ EnvStep
    /\ k \in 1..Len(os)
    /\ rd[k][s] # NoLine
    /\ output' = [output EXCEPT ![k] = push(output[k], rd[k][s][1], BufCap)]
    /\ pushed' = [pushed EXCEPT ![k] = Append(pushed[k], rd[k][s][1])]
    /\ rd' = [rd EXCEPT ![k][s] = NoLine]
    /\ UNCHANGED <<dispVars, procs, os, chan, faults, now, nline>>
    /\ UNCHANGED <<handVars, watchVars, cronVars, logVars>>
    /\ UNCHANGED waiting
    /\ UNCHANGED <<wireVars, cliVars, lockVars, backVars>>

\* output_listener(stdout) at EOF: the "<process terminated>" line (id -k)
\* and the pid sent to the Watcher.
ReaderEof(k) ==
    /\ EnvStep
    /\ k \in 1..Len(os) /\ ~os[k].alive /\ ~os[k].eof
    /\ rd[k].out = NoLine
    /\ os' = [os EXCEPT ![k].eof = TRUE]
    /\ output' = [output EXCEPT ![k] =
                     push(output[k], LogLine(now, rd[k].job_id, os[k].pid, FALSE, 0 - k), BufCap)]
    /\ pushed' = [pushed EXCEPT ![k] =
                     Append(pushed[k], LogLine(now, rd[k].job_id, os[k].pid, FALSE, 0 - k))]
    /\ chan' = Append(chan, [pid |-> os[k].pid, src |-> k])
    /\ UNCHANGED <<dispVars, procs, faults, now>>
    /\ UNCHANGED <<handVars, watchVars, cronVars, logVars, readVars>>
    /\ UNCHANGED waiting
    /\ UNCHANGED <<wireVars, cliVars, lockVars, backVars>>

\* output_listener(stdout) at EOF while the process is still running: the
\* child has closed its stdout (or handed it to nobody) and goes on.
StdoutClosed(k) ==
    /\ EnvStep
    /\ k \in 1..Len(os) /\ os[k].alive /\ ~os[k].eof
    /\ rd[k].out = NoLine
    /\ os' = [os EXCEPT ![k].eof = TRUE]
    /\ output' = [output EXCEPT ![k] =
                     push(output[k], LogLine(now, rd[k].job_id, os[k].pid, FALSE, 0 - k), BufCap)]
    /\ pushed' = [pushed EXCEPT ![k] =
                     Append(pushed[k], LogLine(now, rd[k].job_id, os[k].pid, FALSE, 0 - k))]
    /\ chan' = Append(chan, [pid |-> os[k].pid, src |-> k])
    /\ UNCHANGED <<dispVars, procs, faults, now>>
    /\ UNCHANGED <<handVars, watchVars, cronVars, logVars, readVars>>
    /\ UNCHANGED waiting
    /\ UNCHANGED <<wireVars, cliVars, lockVars, backVars>>

\* The wall clock advances.
Tick ==
    /\ EnvStep
    /\ now < MaxTime
    /\ now' = now + 1
    /\ UNCHANGED <<dispVars, procs, os, output, pushed, chan, faults>>
    /\ UNCHANGED <<handVars, watchVars, cronVars, logVars, readVars>>
    /\ UNCHANGED waiting
    /\ UNCHANGED <<wireVars, cliVars, lockVars, backVars>>

\* ------------------------------------------------------------ Logs
\* The argument of Logs: none, a job id, or a service name.
LogTargets ==
    {[kind |-> "all", id |-> 0, name |-> ""]}
    \cup {[kind |-> "job", id |-> j, name |-> ""] : j \in 1..MaxJobs}
    \cup {[kind |-> "service", id |-> 0, name |-> n] : n \in Services}

\* Dispatcher::log: job_id_filter (0: no filter, -1: JobNotFoundError,
\* -2: ServiceNotFoundError).
JobIdFilter(target) ==
    CASE target.kind = "all" -> 0
      [] target.kind = "job" -> IF target.id \in DOMAIN jobs THEN target.id ELSE 0 - 1
      [] OTHER -> IF find_job(jobs, target.name) = 0 THEN 0 - 2
                  ELSE find_job(jobs, target.name)

\* Dispatcher::log up to the loop.
ReqLogs(target) ==
    /\ DaemonAlive /\ h_pc = "idle"
    /\ h_req' = "Logs"
    /\ IF JobIdFilter(target) < 0
       THEN /\ Reply(ErrMsg(IF JobIdFilter(target) = 0 - 1 THEN "Job not found"
                            ELSE "Service not found"))
            /\ UNCHANGED logVars
       ELSE /\ h_pc' = "log"
            /\ conn' = conn
            /\ log_filter' = JobIdFilter(target)
            /\ last_seen_ts' = << >>
            /\ client' = TRUE
            /\ npoll' = 0
            /\ delivered' = << >>
            /\ polled' = << >>
    /\ UNCHANGED <<dispVars, procs, os, output, pushed, chan, faults, h_job, h_run, h_todo,
                   h_ids, now>>
    /\ UNCHANGED <<watchVars, cronVars, readVars>>
    /\ Accept("Logs")
    /\ UNCHANGED <<wireVars, cliVars, lockVars, backVars>>

\* last_seen_ts.entry(pid).or_insert(epoch)
LastSeen(cur, pid) == IF pid \in DOMAIN cur THEN cur[pid] ELSE NoTs

\* entry.job_id != job_id => continue
FilterJob(lines, job_id) ==
    SelectSeq(lines, LAMBDA l : job_id = 0 \/ l.job_id = job_id)

\* One pass of the loop of log over the Runners from index i on: the cursors
\* and the lines collected, cur and acc being those of the Runners before i.
RECURSIVE LogCollect(_, _, _)
LogCollect(i, cur, acc) ==
    IF i > Len(procs) THEN [cur |-> cur, lines |-> acc]
    ELSE LET pid == procs[i].pid
             buf == output[procs[i].proc]
             last == LastSeen(cur, pid)
         IN LogCollect(i + 1,
                       SetJob(cur, pid, lines_since_cursor(buf, last)),
                       acc \o FilterJob(lines_since(buf, last), log_filter))

\* One turn of the loop of log: the lines are collected, sorted and sent; an
\* empty turn probes the connection. With the client gone the probe or the
\* first send fails and log returns: its locals are dropped (and the history
\* of the session with them). A turn that sends is counted in npoll.
LogPoll ==
    /\ DaemonAlive /\ h_pc = "log" /\ ~ProcsLocked
    /\ LET c == LogCollect(1, last_seen_ts, << >>)
           batch == sort_by_key_ts(c.lines)
       IN IF ~client
          THEN /\ h_pc' = "done"
               /\ last_seen_ts' = << >>
               /\ log_filter' = 0
               /\ npoll' = 0
               /\ delivered' = << >>
               /\ polled' = << >>
          ELSE /\ last_seen_ts' = c.cur
               /\ polled' = [k \in 1..Len(pushed) |->
                                IF \E i \in 1..Len(procs) : procs[i].proc = k
                                THEN Len(pushed[k]) ELSE 0]
               /\ IF batch = << >>
                  THEN UNCHANGED <<npoll, delivered>>
                  ELSE /\ npoll < MaxPolls
                       /\ npoll' = npoll + 1
                       /\ delivered' = delivered \o
                             [n \in 1..Len(batch) |-> [line |-> batch[n], batch |-> npoll + 1]]
               /\ UNCHANGED <<h_pc, log_filter>>
    /\ UNCHANGED <<dispVars, procs, os, output, pushed, chan, faults, now>>
    /\ UNCHANGED <<h_req, h_job, h_run, h_todo, h_ids, conn, client>>
    /\ UNCHANGED <<watchVars, cronVars, readVars>>
    /\ UNCHANGED waiting
    /\ UNCHANGED <<wireVars, cliVars, lockVars, backVars>>

\* The Logs client closes its connection.
ClientDisconnect ==
    /\ DaemonAlive /\ h_pc = "log" /\ client
    /\ client' = FALSE
    /\ UNCHANGED <<dispVars, procs, os, output, pushed, chan, faults, now>>
    /\ UNCHANGED <<handVars, watchVars, cronVars, readVars>>
    /\ UNCHANGED <<last_seen_ts, log_filter, npoll, delivered, polled>>
    /\ UNCHANGED waiting
    /\ UNCHANGED <<wireVars, cliVars, lockVars, backVars>>

\* ------------------------------------------------------------ framing
\* Lengths are usize values: a number is kept as two digits of base 2^16,
\* hi * 2^16 + lo, so that lengths of 2^32 and more can be written.
Big(n) == [hi |-> 0, lo |-> n]
BigAdd(a, b) == [hi |-> a.hi + b.hi + ((a.lo + b.lo) \div Base), lo |-> (a.lo + b.lo) % Base]
BigLeq(a, b) == a.hi < b.hi \/ (a.hi = b.hi /\ a.lo <= b.lo)
BigSub(a, b) == IF a.lo >= b.lo THEN [hi |-> a.hi - b.hi, lo |-> a.lo - b.lo]
                ELSE [hi |-> a.hi - b.hi - 1, lo |-> a.lo + Base - b.lo]

\* bytes.len() as u32: the value modulo 2^32.
as_u32(a) == [hi |-> a.hi % Base, lo |-> a.lo]

\* The variants of Message, by their index in the enum (the index bincode
\* writes): Connect, ExecCommand, CliCommand, PsInfo, JobInfo, LogLine, Ok,
\* JobsStarted, Err. The content of a Message is the sequence of its numbers
\* (ids, pids, inner variant indices) and its text (a line, an error text, the
\* arguments), a text being its length and its content.
MessageTags == 0..8
HasNums(tag) == tag \in {1, 2, 3, 4, 5, 7}
HasText(tag) == tag \in {1, 2, 3, 4, 5, 8}

EmptyText == [len |-> Big(0), c |-> 0]
HugeText == [len |-> [hi |-> Base, lo |-> 0], c |-> 1]
Texts == {EmptyText, [len |-> Big(1), c |-> 1], [len |-> Big(2), c |-> 2], HugeText}
NumSeqs == {<< >>, <<1>>, <<1, 2>>}

Messages ==
    {[tag |-> tag, nums |-> nums, text |-> text] :
         tag \in MessageTags, nums \in NumSeqs, text \in Texts}
    \ {m \in [tag : MessageTags, nums : NumSeqs, text : Texts] :
          \/ ~HasNums(m.tag) /\ m.nums # << >>
          \/ ~HasText(m.tag) /\ m.text # EmptyText}

\* A run of bytes of the stream: what it is (k), how many bytes (n), its value.
Tok(k, n, v) == [k |-> k, n |-> n, v |-> v]

\* bincode::serialize: the variant index as u32, a Vec as its u64 count and
\* its items, a String as its u64 length and its bytes.
EncNums(nums) ==
    <<Tok("len", Big(8), Big(Len(nums)))>>
    \o [i \in 1..Len(nums) |-> Tok("u32", Big(4), Big(nums[i]))]
EncText(text) ==
    <<Tok("len", Big(8), text.len)>>
    \o (IF text.len = Big(0) THEN << >> ELSE <<Tok("data", text.len, Big(text.c))>>)
serialize(m) ==
    <<Tok("tag", Big(4), Big(m.tag))>>
    \o (IF HasNums(m.tag) THEN EncNums(m.nums) ELSE << >>)
    \o (IF HasText(m.tag) THEN EncText(m.text) ELSE << >>)

\* bytes.len()
RECURSIVE BodyLen(_)
BodyLen(b) == IF b = << >> THEN Big(0) ELSE BigAdd(Head(b).n, BodyLen(Tail(b)))

\* bincode::deserialize of the bytes b: the Message, or an error when the
\* bytes end early or are not what the type expects.
DecFail == [ok |-> FALSE, nums |-> << >>, text |-> EmptyText, next |-> 0]
DecNums(b, p) ==
    IF p > Len(b) THEN DecFail
    ELSE IF b[p].k # "len" \/ b[p].v.hi # 0 THEN DecFail
    ELSE LET c == b[p].v.lo
         IN IF p + c > Len(b) THEN DecFail
            ELSE IF \E i \in 1..c : b[p + i].k # "u32" THEN DecFail
            ELSE [ok |-> TRUE, nums |-> [i \in 1..c |-> b[p + i].v.lo],
                  text |-> EmptyText, next |-> p + c + 1]
DecText(b, p) ==
    IF p > Len(b) THEN DecFail
    ELSE IF b[p].k # "len" THEN DecFail
    ELSE IF b[p].v = Big(0)
    THEN [ok |-> TRUE, nums |-> << >>, text |-> EmptyText, next |-> p + 1]
    ELSE IF p + 1 > Len(b) THEN DecFail
    ELSE IF b[p + 1].k # "data" \/ b[p + 1].n # b[p].v THEN DecFail
    ELSE [ok |-> TRUE, nums |-> << >>, text |-> [len |-> b[p].v, c |-> b[p + 1].v.lo],
          next |-> p + 2]
DeserializeError == [ok |-> FALSE, msg |-> [tag |-> 0, nums |-> << >>, text |-> EmptyText]]
deserialize(b) ==
    IF b = << >> THEN DeserializeError
    ELSE IF b[1].k # "tag" \/ b[1].v.lo \notin MessageTags THEN DeserializeError
    ELSE LET tag == b[1].v.lo
             ns == IF HasNums(tag) THEN DecNums(b, 2)
                   ELSE [ok |-> TRUE, nums |-> << >>, text |-> EmptyText, next |-> 2]
             tx == IF ~ns.ok THEN DecFail
                   ELSE IF HasText(tag) THEN DecText(b, ns.next)
                   ELSE [ok |-> TRUE, nums |-> << >>, text |-> EmptyText, next |-> ns.next]
         IN IF ns.ok /\ tx.ok
            THEN [ok |-> TRUE, msg |-> [tag |-> tag, nums |-> ns.nums, text |-> tx.text]]
            ELSE DeserializeError

\* read_exact of size bytes from the stream q: the bytes got and the rest of
\* the stream; full: the stream held that many.
RECURSIVE TakeBytes(_, _)
TakeBytes(q, size) ==
    IF size = Big(0) THEN [got |-> << >>, rest |-> q, full |-> TRUE]
    ELSE IF q = << >> THEN [got |-> << >>, rest |-> << >>, full |-> FALSE]
    ELSE IF BigLeq(Head(q).n, size)
    THEN LET r == TakeBytes(Tail(q), BigSub(size, Head(q).n))
         IN [got |-> <<Head(q)>> \o r.got, rest |-> r.rest, full |-> r.full]
    ELSE [got |-> <<Tok("cut", size, Head(q).v)>>,
          rest |-> <<Tok("cut", BigSub(Head(q).n, size), Head(q).v)>> \o Tail(q),
          full |-> TRUE]

MaxMsgs == 2

\* The variables of the dispatcher, which the framing layer leaves alone.
progVars == <<dispVars, procs, os, output, pushed, chan, faults, now, handVars, watchVars,
              cronVars, logVars, readVars, waiting>>

\* SocketExt::write_serde
WriteSerde(m) ==
    /\ Len(sent) < MaxMsgs
    /\ LET bytes == serialize(m)
       IN /\ wire' = wire \o <<Tok("pfx", Big(4), as_u32(BodyLen(bytes)))>> \o bytes
          /\ sent' = Append(sent, [msg |-> m, size |-> as_u32(BodyLen(bytes)),
                                   len |-> BodyLen(bytes)])
    /\ UNCHANGED <<rcvd, progVars, cliVars, lockVars, backVars>>

\* SocketExt::read_serde. read_u32 takes the four bytes at the head of the
\* stream; read_exact waits until the stream holds size bytes.
ReadSerde ==
    /\ wire # << >>
    /\ Head(wire).k = "pfx"
    /\ LET t == TakeBytes(Tail(wire), Head(wire).v)
       IN /\ t.full
          /\ wire' = t.rest
          /\ rcvd' = Append(rcvd, deserialize(t.got))
    /\ UNCHANGED <<sent, progVars, cliVars, lockVars, backVars>>

\* ------------------------------------------------------------ CLI client
\* bin/shell_compose.rs. main returns the Result of cli(): the exit code of the
\* process is 0 for Ok(()) and 1 for Err(_).
ExitOfOk == 0
ExitOfErr == 1

CliCommandLines == {"Run", "Runat", "Start", "Up", "Stop", "Down", "Ps", "Jobs", "Logs", "Exit"}

\* What receive_message returns: a Message by its variant, or a read error.
Responses == {"Connect", "ExecCommand", "CliCommand", "PsInfo", "JobInfo", "LogLine", "Ok",
              "JobsStarted", "Err", "ReadError"}

MaxWaitMs == 2000
WaitStepMs == 50
MaxRecv == 2

\* The daemon's variables and the framing layer, which the client leaves alone.
notCliVars == <<progVars, wireVars, lockVars, backVars>>

\* cli() from IpcStream::connect to the test on Exit after send_message.
\* ok: connect and send_message succeed.
CliConnectSend(cmd, ok) ==
    IF ~ok THEN cl_pc' = "exited" /\ cl_exit' = ExitOfErr
    ELSE IF cmd = "Exit" THEN cl_pc' = "exited" /\ cl_exit' = ExitOfOk
    ELSE cl_pc' = "recv" /\ cl_exit' = cl_exit

\* cli() up to the receive loop. up: check_connection succeeds.
CliStart(cmd, up, ok) ==
    /\ cl_pc = "init"
    /\ cl_cmd' = cmd
    /\ IF up THEN CliConnectSend(cmd, ok)
       ELSE /\ ok
            /\ IF cmd = "Exit" THEN cl_pc' = "exited" /\ cl_exit' = ExitOfOk
               ELSE cl_pc' = "spawnwait" /\ cl_exit' = cl_exit
    /\ UNCHANGED <<cl_wait_ms, cl_recv, notCliVars>>

\* One turn of the loop of DispatcherProc::wait(2000), and what follows it.
CliWait(up, ok) ==
    /\ cl_pc = "spawnwait"
    /\ IF up THEN CliConnectSend(cl_cmd, ok) /\ UNCHANGED <<cl_wait_ms, cl_cmd>>
       ELSE /\ ok
            /\ IF cl_wait_ms >= MaxWaitMs
               THEN cl_pc' = "exited" /\ cl_exit' = ExitOfErr /\ UNCHANGED <<cl_wait_ms, cl_cmd>>
               ELSE /\ cl_wait_ms' = cl_wait_ms + WaitStepMs
                    /\ UNCHANGED <<cl_pc, cl_exit, cl_cmd>>
    /\ UNCHANGED <<cl_recv, notCliVars>>

\* One turn of the receive loop of cli().
CliReceive(r) ==
    /\ cl_pc = "recv"
    /\ r \in {"Connect", "PsInfo", "JobInfo", "LogLine"} => Len(cl_recv) < MaxRecv
    /\ cl_recv' = Append(cl_recv, r)
    /\ CASE r \in {"Connect", "PsInfo", "JobInfo", "LogLine"} -> UNCHANGED <<cl_pc, cl_exit>>
         [] r \in {"Ok", "JobsStarted", "Err"} -> cl_pc' = "exited" /\ cl_exit' = ExitOfOk
         [] OTHER -> cl_pc' = "exited" /\ cl_exit' = ExitOfErr
    /\ UNCHANGED <<cl_cmd, cl_wait_ms, notCliVars>>

\* ------------------------------------------------------------ specifications
ProcIdx == 0..MaxProcs

\* Requests that allocate a job are drawn while fewer than SupJobs are.
RunSup == \E fail \in BOOLEAN : last_job_id < SupJobs /\ ReqRun(<<"sh">>, fail, Len(os) + 1)
StartSup ==
    \E e \in ProcIdx, fail \in BOOLEAN :
        /\ find_job(jobs, "web") # 0 \/ last_job_id < SupJobs
        /\ ReqStart("web", e, fail, Len(os) + 1)
RunatSup == last_job_id < SupJobs /\ ReqRunat("* * * * * *", <<"sh">>)
StopAny ==
    \E j \in 1..SupJobs, e \in ProcIdx, f \in ProcIdx, ks \in Statuses : ReqStop(j, e, f, ks)
Processes ==
    \/ \E k \in 1..MaxProcs, c \in ExitCodes : ProcExit(k, c)
    \/ \E k \in 1..MaxProcs : ReaderEof(k)
Watcher ==
    \/ \E e \in BOOLEAN : WatcherRecv(e)
    \/ \E fail \in BOOLEAN : WatcherRespawn(fail, Len(os) + 1)

\* The supervision of Shell jobs and services: Run, Start, Stop, Ps, the
\* Watcher and the processes.
Next ==
    \/ RunSup
    \/ StartSup
    \/ StopAny
    \/ \E e \in ProcIdx : ReqPs(e)
    \/ SpawnJobPush
    \/ SpawnJobCheck
    \/ HandlerDone
    \/ Watcher
    \/ Processes

Spec == Init /\ [][Next]_vars

\* The same with Cron jobs: Runat and the cron thread.
NextCron ==
    \/ Next
    \/ RunatSup
    \/ \E j \in 1..MaxJobs, fail \in BOOLEAN : CronFire(j, fail, Len(os) + 1)
    \/ CronPush

SpecCron == Init /\ [][NextCron]_vars

\* The job registry: every request that adds or removes a job, with every
\* argument, the processes running until they are stopped.
NextJobs ==
    \/ \E args \in Argvs, fail \in BOOLEAN : ReqRun(args, fail, Len(os) + 1)
    \/ \E expr \in CronExprs, args \in Argvs : ReqRunat(expr, args)
    \/ \E service \in Services, fail \in BOOLEAN : ReqStart(service, 0, fail, Len(os) + 1)
    \/ \E group \in Groups : \E recipes \in GroupRecipes(group), fail \in BOOLEAN :
          ReqUp(group, recipes, fail)
    \/ \E fail \in BOOLEAN : UpStep(0, fail, Len(os) + 1)
    \/ \E j \in 1..MaxJobs, f \in ProcIdx : ReqStop(j, 0, f, Signalled)
    \/ \E group \in Groups : \E recipes \in GroupRecipes(group), fail \in BOOLEAN :
          ReqDown(group, recipes, fail)
    \/ \E f \in ProcIdx : DownStep(0, f, Signalled)
    \/ SpawnJobPush
    \/ SpawnJobCheck
    \/ HandlerDone

SpecJobs == Init /\ [][NextJobs]_vars

\* Output capture and Logs: Run, the two readers of each process, the clock,
\* and one Logs handler with its client.
NextLog ==
    \/ ReqRun(<<"sh">>, FALSE, Len(os) + 1)
    \/ SpawnJobPush
    \/ SpawnJobCheck
    \/ HandlerDone
    \/ \E target \in LogTargets : ReqLogs(target)
    \/ LogPoll
    \/ ClientDisconnect
    \/ \E k \in 1..MaxProcs, s \in {"out", "err"} : ReadLine(k, s)
    \/ \E k \in 1..MaxProcs, s \in {"out", "err"} : PushLine(k, s)
    \/ \E k \in 1..MaxProcs : ProcExit(k, 0)
    \/ \E k \in 1..MaxProcs : ReaderEof(k)
    \/ Tick

SpecLog == Init /\ [][NextLog]_vars

\* Connections. A client connects and writes its request; the connection waits
\* in the backlog of the listening socket until the accept loop takes it.
MaxWaiting == 1

ConnRequests == {"Ps", "Stop"}

Connect(req) ==
    /\ DaemonAlive
    /\ Len(waiting) < MaxWaiting
    /\ waiting' = Append(waiting, req)
    /\ UNCHANGED <<dispVars, procs, os, output, pushed, chan, faults, now>>
    /\ UNCHANGED <<handVars, watchVars, cronVars, logVars, readVars, wireVars, cliVars, lockVars, backVars>>

\* The accept loop of start_ipc_listener calls the connection handler inline:
\* the listener thread is either in a handler or taking the next connection.
Listener ==
    \/ waiting # << >> /\ (ReqPs(0) \/ \E j \in 1..SupJobs : ReqStop(j, 0, 0, Signalled))
    \/ SpawnJobPush \/ SpawnJobCheck \/ HandlerDone \/ LogPoll

NextConn ==
    \/ \E req \in ConnRequests : Connect(req)
    \/ RunSup
    \/ \E j \in 1..SupJobs : ReqStop(j, 0, 0, Signalled)
    \/ ReqPs(0)
    \/ ReqLogs([kind |-> "all", id |-> 0, name |-> ""])
    \/ LogPoll
    \/ ClientDisconnect
    \/ SpawnJobPush
    \/ SpawnJobCheck
    \/ HandlerDone
    \/ Processes

\* The listener thread is scheduled; clients and processes need not act.
SpecConn == Init /\ [][NextConn]_vars /\ WF_vars(Listener)

\* listener.incoming() yields Err: error_handler passes the error to
\* on_connection_error, which the daemon set to a closure that panics; the
\* panic unwinds the accept loop on the main thread.
AcceptError ==
    /\ DaemonAlive /\ h_pc = "idle"
    /\ faults < MaxFaults
    /\ faults' = faults + 1
    /\ h_pc' = "dead"
    /\ UNCHANGED <<dispVars, procs, os, output, pushed, chan, h_req, h_job, h_run, h_todo, h_ids,
                   conn, now>>
    /\ UNCHANGED <<watchVars, cronVars, logVars, readVars>>
    /\ UNCHANGED waiting
    /\ UNCHANGED <<wireVars, cliVars, lockVars, backVars>>

\* The listener with failing accepts.
NextAccept ==
    \/ NextConn
    \/ AcceptError

SpecAccept == Init /\ [][NextAccept]_vars

\* Every ExecCommand and its error paths, with the cron thread, the Watcher and
\* the processes running beside the handler.
NextExec ==
    \/ \E args \in Argvs, fail \in BOOLEAN : ReqRun(args, fail, Len(os) + 1)
    \/ \E expr \in CronExprs, args \in Argvs : ReqRunat(expr, args)
    \/ \E fail \in BOOLEAN : ReqStart("web", 0, fail, Len(os) + 1)
    \/ \E group \in Groups : \E recipes \in GroupRecipes(group), fail \in BOOLEAN :
          ReqUp(group, recipes, fail)
    \/ \E fail \in BOOLEAN : UpStep(0, fail, Len(os) + 1)
    \/ SpawnJobPush
    \/ SpawnJobCheck
    \/ HandlerDone
    \/ \E j \in 1..MaxJobs, fail \in BOOLEAN : CronFire(j, fail, Len(os) + 1)
    \/ CronPush
    \/ WatcherRecv(FALSE)
    \/ \E fail \in BOOLEAN : WatcherRespawn(fail, Len(os) + 1)
    \/ \E k \in 1..MaxProcs : ProcExit(k, 2)
    \/ \E k \in 1..MaxProcs : ReaderEof(k)

SpecExec == Init /\ [][NextExec]_vars

\* The commands of the CLI: Stop, Down, Ps, Jobs and Exit on the jobs that Run
\* and Start registered, the processes exiting on their own.
NextCli ==
    \/ \E fail \in BOOLEAN : ReqRun(<<"sh">>, fail, Len(os) + 1)
    \/ \E fail \in BOOLEAN : ReqStart("web", 0, fail, Len(os) + 1)
    \/ SpawnJobPush
    \/ SpawnJobCheck
    \/ HandlerDone
    \/ \E j \in 1..MaxJobs, f \in ProcIdx, ks \in Statuses : ReqStop(j, 0, f, ks)
    \/ \E group \in Groups : \E recipes \in GroupRecipes(group), fail \in BOOLEAN :
          ReqDown(group, recipes, fail)
    \/ \E f \in ProcIdx, ks \in Statuses : DownStep(0, f, ks)
    \/ \E e \in ProcIdx : ReqPs(e)
    \/ ReqJobs
    \/ ReqExit
    \/ \E k \in 1..MaxProcs, c \in ExitCodes : ProcExit(k, c)

SpecCli == Init /\ [][NextCli]_vars

\* One stream of the framing layer: a writer and a reader.
NextWire ==
    \/ \E m \in Messages : WriteSerde(m)
    \/ ReadSerde

SpecWire == Init /\ [][NextWire]_vars

\* One run of the CLI client against any daemon.
NextClient ==
    \/ \E cmd \in CliCommandLines, up \in BOOLEAN, ok \in BOOLEAN : CliStart(cmd, up, ok)
    \/ \E up \in BOOLEAN, ok \in BOOLEAN : CliWait(up, ok)
    \/ \E r \in Responses : CliReceive(r)

SpecClient == Init /\ [][NextClient]_vars

\* The threads of the daemon around the Runner list: the handler, the stdout
\* readers and the Watcher.
HandlerThread == SpawnJobPush \/ SpawnJobCheck \/ HandlerDone \/ LogPoll
ReaderThreads == \E k \in 1..MaxProcs : ReaderEof(k)
WatcherThread == WatcherRecv(FALSE) \/ WatcherBlock \/ WatcherWake(FALSE)

\* One Shell job at a time with Ps and Logs, and a process that may close its
\* stdout before it exits.
NextReap ==
    \/ ReqRun(<<"sh">>, FALSE, Len(os) + 1)
    \/ ReqPs(0)
    \/ ReqLogs([kind |-> "all", id |-> 0, name |-> ""])
    \/ ClientDisconnect
    \/ \E k \in 1..MaxProcs : ProcExit(k, 0)
    \/ \E k \in 1..MaxProcs : StdoutClosed(k)
    \/ HandlerThread
    \/ ReaderThreads
    \/ WatcherThread

\* Each thread of the daemon is scheduled; clients need not act and a process
\* need not exit.
SpecReap ==
    /\ Init /\ [][NextReap]_vars
    /\ WF_vars(HandlerThread) /\ WF_vars(ReaderThreads) /\ WF_vars(WatcherThread)

\* The spawn path against the reader and the Watcher: Runner::spawn starts
\* the readers and returns, the handler pushes the Runner, the process exits,
\* the reader sends the pid, the Watcher receives it.
NextSpawn ==
    \/ ReqRun(<<"sh">>, FALSE, Len(os) + 1)
    \/ \E k \in 1..MaxProcs, c \in ExitCodes : ProcExit(k, c)
    \/ SpawnJobPush \/ SpawnJobCheck \/ HandlerDone
    \/ ReaderThreads
    \/ WatcherRecv(FALSE)

SpecSpawn ==
    /\ Init /\ [][NextSpawn]_vars
    /\ WF_vars(SpawnJobPush \/ SpawnJobCheck \/ HandlerDone)
    /\ WF_vars(ReaderThreads) /\ WF_vars(WatcherRecv(FALSE))

\* Pid reuse: the OS may give a new process the pid of one that was reaped.
NextPid ==
    \/ \E pid \in 1..MaxProcs : ReqRun(<<"sh">>, FALSE, pid)
    \/ \E pid \in 1..MaxProcs : ReqStart("web", 0, FALSE, pid)
    \/ ReqPs(0)
    \/ SpawnJobPush \/ SpawnJobCheck \/ HandlerDone
    \/ \E k \in 1..MaxProcs, c \in ExitCodes : ProcExit(k, c)
    \/ ReaderThreads
    \/ WatcherRecv(FALSE)
    \/ \E pid \in 1..MaxProcs : WatcherRespawn(FALSE, pid)

SpecPid == Init /\ [][NextPid]_vars

\* Everything that calls update_proc_state or touches a Runner: Run, Start,
\* Stop, Ps, Logs, the cron thread and the Watcher.
NextEnd ==
    \/ last_job_id < SupJobs /\ ReqRun(<<"sh">>, FALSE, Len(os) + 1)
    \/ /\ find_job(jobs, "web") # 0 \/ last_job_id < SupJobs
       /\ ReqStart("web", 0, FALSE, Len(os) + 1)
    \/ RunatSup
    \/ \E j \in 1..SupJobs : ReqStop(j, 0, 0, Signalled)
    \/ ReqPs(0)
    \/ ReqLogs([kind |-> "all", id |-> 0, name |-> ""])
    \/ LogPoll
    \/ ClientDisconnect
    \/ SpawnJobPush \/ SpawnJobCheck \/ HandlerDone
    \/ \E j \in 1..SupJobs : CronFire(j, FALSE, Len(os) + 1)
    \/ CronPush
    \/ \E e \in BOOLEAN : WatcherRecv(e)
    \/ WatcherRespawn(FALSE, Len(os) + 1)
    \/ Processes

SpecEnd == Init /\ [][NextEnd]_vars

\* ------------------------------------------------------------ mutexes
\* The lock operations of each call, in the order the code does them. A guard
\* that is a temporary of a statement is released at the end of the statement.
Acq(m) == [op |-> "acq", m |-> m]
Rel(m) == [op |-> "rel", m |-> m]

\* spawn_job: the push, then the look at last().
spawn_job_locks == <<Acq("procs"), Rel("procs"), Acq("procs"), Rel("procs")>>
\* start: any(is_running), then spawn_job.
start_locks == <<Acq("procs"), Rel("procs")>> \o spawn_job_locks
\* stop as it would be if it removed the schedule inside the loop over the
\* Runner list.
stop_locks_nested == <<Acq("procs"), Acq("scheduler"), Rel("scheduler"), Rel("procs")>>
\* stop: scheduler.remove in one statement, then the loop over the Runner list.
stop_locks == <<Acq("scheduler"), Rel("scheduler"), Acq("procs"), Rel("procs")>>
\* run_at: scheduler.add in one statement.
run_at_locks == <<Acq("scheduler"), Rel("scheduler")>>
\* ps: the pids, then the loop over the Runner list.
ps_locks == <<Acq("procs"), Rel("procs"), Acq("procs"), Rel("procs")>>
\* log, one turn: the loop over the Runner list, the OutputBuffer of a Runner
\* inside it.
log_locks == <<Acq("procs"), Acq("output"), Rel("output"), Rel("procs")>>
\* cron_scheduler: tick under the scheduler mutex, the callback's push in it.
cron_locks == <<Acq("scheduler"), Acq("procs"), Rel("procs"), Rel("scheduler")>>
\* child_watcher: find, wait and the decision, then the push of the respawn.
watcher_locks == <<Acq("procs"), Rel("procs"), Acq("procs"), Rel("procs")>>
\* output_listener: one push.
reader_locks == <<Acq("output"), Rel("output")>>

LockCalls(t) ==
    CASE t = "handler" -> {spawn_job_locks, start_locks, stop_locks, run_at_locks,
                           ps_locks, log_locks}
      [] t = "cron" -> {cron_locks}
      [] t = "watcher" -> {watcher_locks}
      [] OTHER -> {reader_locks}

\* Thread t enters a call.
LockCall(t, script) ==
    /\ lk_todo[t] = << >>
    /\ script \in LockCalls(t)
    /\ lk_todo' = [lk_todo EXCEPT ![t] = script]
    /\ UNCHANGED <<lk_owner, progVars, wireVars, cliVars, backVars>>

\* Mutex::lock returns: the mutex was free.
LockAcquire(t) ==
    /\ lk_todo[t] # << >>
    /\ LET o == Head(lk_todo[t])
       IN /\ o.op = "acq"
          /\ lk_owner[o.m] = "none"
          /\ lk_owner' = [lk_owner EXCEPT ![o.m] = t]
    /\ lk_todo' = [lk_todo EXCEPT ![t] = Tail(@)]
    /\ UNCHANGED <<progVars, wireVars, cliVars, backVars>>

\* The guard is dropped.
LockRelease(t) ==
    /\ lk_todo[t] # << >>
    /\ LET o == Head(lk_todo[t])
       IN /\ o.op = "rel"
          /\ lk_owner[o.m] = t
          /\ lk_owner' = [lk_owner EXCEPT ![o.m] = "none"]
    /\ lk_todo' = [lk_todo EXCEPT ![t] = Tail(@)]
    /\ UNCHANGED <<progVars, wireVars, cliVars, backVars>>

NextLock ==
    \/ \E t \in LockThreads : \E script \in LockCalls(t) : LockCall(t, script)
    \/ \E t \in LockThreads : LockAcquire(t)
    \/ \E t \in LockThreads : LockRelease(t)

SpecLock == Init /\ [][NextLock]_vars

\* ------------------------------------------------------------ back-off
\* The runs of one service whose restart information is computed by
\* Runner::restart_infos. Times are in milliseconds here.
MaxRuns == 60
RunDurations == {0, ResetThreshold + 1}

\* Start of the service: its first Runner, with the default RestartInfo.
BackoffStart ==
    /\ b_pc = "ok" /\ b_run = << >>
    /\ b_run' = <<NewRunner(1, 1, 1, new_service("web").args, new_service("web").restart,
                            "handler", 0)>>
    /\ UNCHANGED <<b_runs, b_pc, b_wrapped>>
    /\ UNCHANGED <<progVars, wireVars, cliVars, lockVars>>

\* The run ends after d ms with exit code c and restart_infos is asked for the
\* next run; checked: the build has overflow checks.
BackoffEnd(d, c, checked) ==
    /\ b_pc = "ok" /\ b_run # << >>
    /\ b_runs < MaxRuns
    /\ LET r == [b_run[1] EXCEPT !.state = IF c = 0 THEN ExitOk ELSE ExitErr(c),
                                 !.end = b_run[1].start + d]
           info == restart_infos(r)
       IN /\ checked => restart_infos_overflows(r)
          /\ IF restart_infos_overflows(r) /\ checked
             THEN b_pc' = "panicked" /\ UNCHANGED <<b_run, b_wrapped>>
             ELSE /\ b_pc' = b_pc
                  /\ b_wrapped' = (b_wrapped \/ restart_infos_overflows(r))
                  /\ b_run' = IF info = << >> THEN << >>
                              ELSE <<NewRunner(1, 1, info[1].job_id, info[1].args,
                                               info[1].restart_info, "watcher", 0)>>
    /\ b_runs' = b_runs + 1
    /\ UNCHANGED <<progVars, wireVars, cliVars, lockVars>>

NextBackoff ==
    \/ BackoffStart
    \/ \E d \in RunDurations, c \in ExitCodes, checked \in BOOLEAN : BackoffEnd(d, c, checked)

SpecBackoff == Init /\ [][NextBackoff]_vars

\* ------------------------------------------------------------ properties
Runners == 1..Len(procs)

\* The Runners the Watcher appended as respawns of Runner i.
Successors(i) == {n \in Runners : procs[n].origin = "watcher" /\ procs[n].parent = i}

\* The Watcher holds a respawn of Runner i that it has not spawned yet.
RespawnPending(i) == w_pc = "sleep" /\ w_respawn[1].parent = i

\* The pid of Runner i's process was sent at EOF of its stdout and the Watcher
\* has finished with every pid sent so far.
Settled(i) == os[procs[i].proc].eof /\ chan = << >> /\ w_pc = "idle"

\* C1: after Stop(job_id) has replied Ok, the Watcher never again appends a
\* Runner with that job_id to the Runner list.
C1_NoRespawnAfterStop ==
    [][\A j \in stopped_ok :
          Len(procs') > Len(procs) =>
              ~(procs'[Len(procs')].origin = "watcher" /\ procs'[Len(procs')].job_id = j)]_vars

\* C2: a Runner with policy OnFailure that was not user-terminated, once the
\* Watcher has dealt with its termination and no environment failure was
\* injected, has exactly one successor (same job_id, same argv) if its process
\* exited with a non-zero code, and no successor otherwise.
C2_OnFailureSuccessors ==
    \A i \in Runners :
        (/\ procs[i].restart_info.policy = "OnFailure"
         /\ ~procs[i].user_terminated
         /\ Settled(i)
         /\ faults = 0)
        => /\ \A n \in Successors(i) : /\ procs[n].job_id = procs[i].job_id
                                       /\ procs[n].cmd_args = procs[i].cmd_args
           /\ LET st == os[procs[i].proc].status
              IN IF ~st.sig /\ st.code > 0
                 THEN Cardinality(Successors(i)) = 1
                 ELSE Successors(i) = {}

\* C3: a Runner with policy Never is never respawned, whatever its exit
\* status: it has no successor and the Watcher holds no respawn of it; and
\* every Runner of a Shell job and of a Cron job has policy Never.
C3_NeverNoRespawn ==
    /\ \A i \in Runners :
          procs[i].restart_info.policy = "Never"
          => Successors(i) = {} /\ ~RespawnPending(i)
    /\ \A i \in Runners :
          (procs[i].job_id \in DOMAIN jobs
           /\ jobs[procs[i].job_id].job_type \in {"Shell", "Cron"})
          => procs[i].restart_info.policy = "Never"
    /\ \A i \in Runners : procs[i].origin = "cron" => procs[i].restart_info.policy = "Never"

\* A Never Runner of a Cron job exited with a non-zero code and the Watcher
\* processed its termination.
C3_Witness ==
    \E i \in Runners :
        /\ procs[i].origin = "cron"
        /\ procs[i].restart_info.policy = "Never"
        /\ procs[i].state = ExitErr(2)
        /\ procs[i].end # NoTs
        /\ w_pc = "idle"

\* C4: a user-terminated Runner is never respawned: it has no successor and
\* the Watcher holds no respawn of it; the decision is negative for every
\* policy and every state.
ProcStates == {Spawned, Running, ExitOk, Unknown} \cup {ExitErr(c) : c \in {0} \cup ExitCodes}
C4_UserTerminatedNoRespawn ==
    /\ \A i \in Runners :
          procs[i].user_terminated => Successors(i) = {} /\ ~RespawnPending(i)
    /\ \A policy \in Policies, state \in ProcStates : ~RespawnDecision(TRUE, policy, state)

\* A Runner with policy OnFailure was stopped by the user, its process exited
\* with a non-zero code, and the Watcher processed its termination.
C4_Witness ==
    \E i \in Runners :
        /\ procs[i].user_terminated
        /\ procs[i].restart_info.policy = "OnFailure"
        /\ procs[i].state = ExitErr(2)
        /\ procs[i].end # NoTs
        /\ w_pc = "idle"

\* C5: every Runner in the Runner list whose state is ExitOk or ExitErr(_)
\* has its end timestamp set.
C5_ExitedHasEnd ==
    \A i \in Runners : exited(procs[i].state) => procs[i].end # NoTs

\* C6: every id add_job allocates is greater than every id allocated before,
\* the first is 1, 0 is never allocated, and the id of a job removed by Stop
\* is not allocated again.
C6_JobIdsIncrease ==
    /\ \A m, n \in 1..Len(alloc_log) : m < n => alloc_log[m] < alloc_log[n]
    /\ alloc_log # << >> => alloc_log[1] = 1
    /\ \A n \in 1..Len(alloc_log) : alloc_log[n] # 0
    /\ \A j \in stopped_ok : Cardinality({n \in 1..Len(alloc_log) : alloc_log[n] = j}) = 1

\* A job was allocated after Stop removed the job with the greatest id.
C6_Witness ==
    /\ Len(alloc_log) = 2
    /\ alloc_log[1] \in stopped_ok
    /\ alloc_log[2] \in DOMAIN jobs

\* The last n elements of q.
LastN(q, n) == SubSeq(q, Len(q) - n + 1, Len(q))

\* C7: every OutputBuffer holds at most BufCap entries and equals the last
\* min(k, BufCap) of the k lines pushed to it, in push order.
C7_BufferIsTail ==
    \A k \in 1..Len(output) :
        /\ Len(output[k]) <= BufCap
        /\ output[k] = LastN(pushed[k], IF Len(pushed[k]) < BufCap THEN Len(pushed[k])
                                        ELSE BufCap)

\* A push to a full buffer happened, and the two readers had pushed to it.
C7_Witness ==
    \E k \in 1..Len(output) :
        /\ Len(pushed[k]) > BufCap
        /\ \E m, n \in 1..Len(pushed[k]) : pushed[k][m].is_stderr /\ ~pushed[k][n].is_stderr

\* C8: in the sequence of LogLines a Logs client receives, successive lines
\* with the same pid have non-decreasing ts.
C8_PerPidMonotonic ==
    \A m, n \in 1..Len(delivered) :
        (m < n /\ delivered[m].line.pid = delivered[n].line.pid)
        => delivered[m].line.ts <= delivered[n].line.ts

\* The lines of buffer k that were in it at the last poll.
RetainedAtPoll(k) ==
    {pushed[k][n] : n \in {x \in 1..polled[k] : x > polled[k] - BufCap}}

\* C9: every line that was in a matching Runner's buffer at a poll is
\* delivered to the connected client, and no line is delivered twice.
C9_ExactlyOnce ==
    (h_pc = "log" /\ client) =>
        /\ \A m, n \in 1..Len(delivered) : m < n => delivered[m].line # delivered[n].line
        /\ \A k \in 1..Len(polled) : \A l \in RetainedAtPoll(k) :
              (log_filter = 0 \/ l.job_id = log_filter)
              => \E n \in 1..Len(delivered) : delivered[n].line = l

\* C10: within one poll batch the LogLines are sent in non-decreasing order
\* of ts.
C10_BatchSorted ==
    \A m, n \in 1..Len(delivered) :
        (m < n /\ delivered[m].batch = delivered[n].batch)
        => delivered[m].line.ts <= delivered[n].line.ts

\* One batch holds lines of two Runners, and the line of the Runner later in
\* the list has the smaller ts: it was collected last and is sent first.
C10_Witness ==
    \E m, n \in 1..Len(delivered) :
        /\ m < n
        /\ delivered[m].batch = delivered[n].batch
        /\ delivered[m].line.pid > delivered[n].line.pid
        /\ delivered[m].line.ts < delivered[n].line.ts

\* C11: while a Logs stream is open and its client stays connected, a request
\* waiting on a second connection is eventually taken by the listener and
\* answered.
C11_SecondClientAnswered ==
    (waiting # << >> /\ h_pc = "log" /\ client) ~> (waiting = << >> \/ ~client)

\* Outside a Logs stream every waiting request is eventually taken.
ConnServedOutsideLogs ==
    (waiting # << >> /\ h_pc # "log") ~> (waiting = << >> \/ h_pc = "log")

\* C12: a handler of an ExecCommand (Run, Runat, Start, Up) sends nothing
\* before it ends, never ends without a reply, and ends having sent exactly one
\* message, which is JobsStarted or Err.
ExecCommands == {"Run", "Runat", "Start", "Up"}

C12_ExecOneTerminalReply ==
    h_req \in ExecCommands =>
        /\ h_pc # "dead"
        /\ h_pc = "done" => Len(conn) = 1 /\ conn[1].t \in {"JobsStarted", "Err"}
        /\ h_pc # "done" => conn = << >>

\* C13: a handler of Stop, Down, Ps, Jobs or Exit never ends without a reply;
\* at its end the last message sent is Ok or Err and no other one is; Ps sent
\* exactly one PsInfo before it, Jobs exactly one JobInfo, the others nothing.
CliCommands == {"Stop", "Down", "Ps", "Jobs", "Exit"}

C13_CliOneTerminalReply ==
    h_req \in CliCommands =>
        /\ h_pc \notin {"dead", "exited"}
        /\ h_pc = "done" =>
              /\ conn # << >>
              /\ conn[Len(conn)].t \in {"Ok", "Err"}
              /\ \A n \in 1..(Len(conn) - 1) : conn[n].t \notin {"Ok", "Err", "JobsStarted"}
              /\ h_req = "Ps" => Len(conn) = 2 /\ conn[1].t = "PsInfo"
              /\ h_req = "Jobs" => Len(conn) = 2 /\ conn[1].t = "JobInfo"
              /\ h_req \in {"Stop", "Down"} => Len(conn) = 1

\* C14: a Runner respawned from a Runner that was itself a respawn, and whose
\* run was not longer than the reset threshold, carries twice the wait its
\* parent carried (the wait restart_infos computes); after a longer run, 50.
C14_BackoffDoubles ==
    \A i \in Runners :
        (procs[i].origin = "watcher" /\ procs[procs[i].parent].origin = "watcher") =>
            LET p == procs[procs[i].parent]
            IN procs[i].restart_info.wait_time =
                  IF p.end - p.start > ResetThreshold THEN u64(50)
                  ELSE wrapping_mul2(p.restart_info.wait_time)

\* C15: Start(service) takes the Service job of that name, or allocates one
\* with the next id, policy OnFailure and wait 50. When a Runner of that job has
\* not exited it replies JobsStarted([]) and appends no Runner and no job.
\* Otherwise it spawns: the handler appends exactly one Runner, of that job, and
\* replies JobsStarted([id]) when the spawn succeeds; a spawn that fails is
\* answered with Err.
C15_StartStep ==
    /\ (h_pc = "idle" /\ h_req' = "Start") =>
          LET j == h_job'
              live == \E i \in 1..Len(procs') :
                          procs'[i].job_id = j /\ ~exited(procs'[i].state)
              known == {k \in DOMAIN jobs : /\ jobs[k].job_type = "Service"
                                            /\ jobs[k].name = jobs'[j].name}
          IN  /\ j \in DOMAIN jobs'
              /\ jobs'[j].job_type = "Service"
              /\ jobs'[j].restart = [policy |-> "OnFailure", wait_time |-> u64(50)]
              /\ Len(procs') = Len(procs)
              /\ IF known # {}
                 THEN j \in known /\ jobs' = jobs /\ last_job_id' = last_job_id
                 ELSE /\ j = last_job_id + 1
                      /\ DOMAIN jobs' = DOMAIN jobs \cup {j}
                      /\ \A k \in DOMAIN jobs : jobs'[k] = jobs[k]
              /\ live => /\ h_pc' = "done"
                         /\ conn' = <<JobsStarted(<< >>)>>
                         /\ jobs' = jobs
                         /\ h_run' = << >>
              /\ ~live => \/ /\ h_pc' = "spawned"
                             /\ conn' = << >>
                             /\ Len(h_run') = 1
                             /\ h_run'[1].job_id = j
                             /\ h_run'[1].restart_info = jobs'[j].restart
                          \/ /\ h_pc' = "done"
                             /\ Len(conn') = 1
                             /\ conn'[1].t = "Err"
                             /\ h_run' = << >>
    /\ (h_req = "Start" /\ Len(procs') > Len(procs)
            /\ procs'[Len(procs')].origin = "handler") =>
          /\ h_pc = "spawned" /\ h_pc' = "startup"
          /\ procs' = Append(procs, h_run[1])
    /\ (h_req = "Start" /\ h_pc = "startup" /\ h_pc' # "startup") =>
          /\ h_pc' = "done"
          /\ Len(conn') = 1
          /\ conn'[1] = JobsStarted(<<h_job>>) \/ conn'[1].t = "Err"

C15_Start == [][C15_StartStep]_vars

\* A Start on a service whose job was started before and has two Runners (one
\* exited, one running) was answered JobsStarted([]).
C15_Witness ==
    /\ h_req = "Start" /\ h_pc = "done"
    /\ conn = <<JobsStarted(<< >>)>>
    /\ Len(procs) >= 2
    /\ \E i \in Runners : procs[i].job_id = h_job /\ procs[i].origin = "handler" /\ i >= 2

\* C16: a Stop handled without any failure of the OS is, for some job id j,
\* either the Stop of the registered job j: it replies Ok, removes j (and only
\* j) from the job registry and from the cron schedule registry, and leaves
\* every Runner of j with user_terminated = true and its process killed; or the
\* Stop of an unregistered j: it replies Err(JobNotFound) and leaves the
\* registries unchanged.
C16_StopStep ==
    (h_pc = "idle" /\ h_req' = "Stop" /\ faults' = faults) =>
        \E j \in 1..MaxJobs :
            IF j \in DOMAIN jobs
            THEN /\ h_pc' = "done"
                 /\ conn' = <<OkMsg>>
                 /\ DOMAIN jobs' = DOMAIN jobs \ {j}
                 /\ \A k \in DOMAIN jobs' : jobs'[k] = jobs[k]
                 /\ cronjobs' = cronjobs \ {j}
                 /\ DOMAIN scheduler' = DOMAIN scheduler \ {j}
                 /\ \A k \in DOMAIN scheduler' : scheduler'[k] = scheduler[k]
                 /\ \A i \in 1..Len(procs') :
                        procs'[i].job_id = j =>
                            procs'[i].user_terminated /\ ~os'[procs'[i].proc].alive
            ELSE /\ h_pc' = "done"
                 /\ conn' = <<ErrMsg("Job not found")>>
                 /\ jobs' = jobs
                 /\ cronjobs' = cronjobs
                 /\ scheduler' = scheduler

C16_Stop == [][C16_StopStep]_vars

\* C17: a cron-triggered spawn that fails stops neither the cron thread (the
\* schedules keep firing) nor, at a later Runat or Stop, the listener.
C17_CronSpawnFailureOnlyLogged ==
    /\ c_pc # "panicked"
    /\ h_pc # "dead"

\* C18: when the startup window of a Run or Start ends, the reply is
\* Err(ProcExit(c)) if and only if the Runner this request spawned (the last one
\* a handler appended) is in state ExitErr(c), and JobsStarted([id]) otherwise,
\* whatever Runners the Watcher appended meanwhile.
OwnRunner == CHOOSE i \in Runners :
                /\ procs[i].origin = "handler"
                /\ \A k \in Runners : procs[k].origin = "handler" => k <= i

C18_VerdictStep ==
    (h_req \in {"Run", "Start"} /\ h_pc = "startup" /\ h_pc' = "done") =>
        conn' = IF procs[OwnRunner].state.tag = "ExitErr"
                THEN <<ErrCode("Process exit code", procs[OwnRunner].state.code)>>
                ELSE <<JobsStarted(<<h_job>>)>>

C18_VerdictOnOwnRunner == [][C18_VerdictStep]_vars

\* C19: no step removes, replaces or reorders a Runner of the list, and the
\* PsInfo of a Ps reply lists every Runner of the list, the last appended first.
C19_AppendOnlyStep ==
    /\ Len(procs') >= Len(procs)
    /\ \A i \in 1..Len(procs) :
          /\ procs'[i].proc = procs[i].proc
          /\ procs'[i].pid = procs[i].pid
          /\ procs'[i].job_id = procs[i].job_id

C19_PsListsAll ==
    (h_req = "Ps" /\ h_pc = "done") =>
        /\ conn[1].t = "PsInfo"
        /\ Len(conn[1].infos) = Len(procs)
        /\ \A n \in 1..Len(procs) : conn[1].infos[n] = ProcInfo(procs[Len(procs) + 1 - n])

C19_AppendOnlyReverseListed == [][C19_AppendOnlyStep]_vars /\ []C19_PsListsAll

\* A Ps reply that lists a Runner of a job stopped before and, before it, a
\* Runner appended later by the Watcher or the cron thread.
C19_Witness ==
    /\ h_req = "Ps" /\ h_pc = "done"
    /\ \E n, m \in 1..Len(conn[1].infos) :
          /\ n < m
          /\ conn[1].infos[m].job_id \in stopped_ok
          /\ conn[1].infos[n].pid = procs[Len(procs) + 1 - n].pid
          /\ procs[Len(procs) + 1 - n].origin # "handler"

\* C20: what read_serde returns is, in order, the Messages written; and the
\* prefix of every frame written is the length of its body.
C20_FramingRoundTrip ==
    /\ Len(rcvd) <= Len(sent)
    /\ \A n \in 1..Len(rcvd) : rcvd[n].ok /\ rcvd[n].msg = sent[n].msg
    /\ \A n \in 1..Len(sent) : sent[n].size = sent[n].len

\* C21: the client that has exited after a terminal Ok or JobsStarted has
\* exit code 0; after a terminal Err, after an unexpected message or a failed
\* read, and after the time-out of the wait for the daemon, a non-zero one.
C21_ClientExitCode ==
    cl_pc = "exited" =>
        /\ (cl_recv # << >> /\ cl_recv[Len(cl_recv)] \in {"Ok", "JobsStarted"}) => cl_exit = 0
        /\ (cl_recv # << >> /\ cl_recv[Len(cl_recv)] \in {"Err", "ReadError", "ExecCommand",
                                                          "CliCommand"}) => cl_exit > 0
        /\ (cl_recv = << >> /\ cl_wait_ms >= MaxWaitMs /\ cl_cmd # "Exit") => cl_exit > 0

\* C22: once the daemon has handled Exit, no Runner's process is still
\* running: every running one was terminated before the daemon process ended.
C22_ExitTerminatesChildren ==
    h_pc = "exited" => \A i \in Runners : ~os[procs[i].proc].alive

\* C26: the Watcher's blocking reap returns at once: whenever the Watcher holds
\* the Runner-list mutex in proc.wait(), the process it waits for has already
\* terminated, so no handler is kept from the Runner list.
C26_ReapNeverBlocks ==
    ProcsLocked => ~os[procs[w_wait[1].runner].proc].alive

\* C23: a Logs handler in its polling loop leaves the loop only when the
\* client is gone (a LogLine send or the heartbeat fails), and once the client
\* has disconnected the handler eventually leaves the loop.
C23_LogsEndOnDisconnect ==
    /\ [][(h_pc = "log" /\ h_pc' # "log") => ~client]_vars
    /\ ((h_pc = "log" /\ ~client) ~> (h_pc # "log"))

\* C24: Runat with a parsable expression allocates a new Cron job with policy
\* Never, registers exactly one schedule for it, appends no Runner and replies
\* JobsStarted([id]); every firing of a schedule appends exactly one Runner
\* with the job id and the args of the schedule; the Watcher never respawns
\* such a Runner.
C24_RunatStep ==
    /\ (h_pc = "idle" /\ h_req' = "Runat" /\ CronParses(jobs'[last_job_id'].name)) =>
          LET id == last_job_id'
          IN /\ id > last_job_id /\ id \notin DOMAIN jobs
             /\ jobs'[id].job_type = "Cron" /\ jobs'[id].restart.policy = "Never"
             /\ id \notin DOMAIN scheduler
             /\ DOMAIN scheduler' = DOMAIN scheduler \cup {id}
             /\ scheduler'[id].args = jobs'[id].args
             /\ procs' = procs /\ h_run' = << >>
             /\ h_pc' = "done" /\ conn' = <<JobsStarted(<<id>>)>>
    /\ (c_pc = "idle" /\ c_pc' # "idle") =>
          /\ c_pc' = "spawned" /\ procs' = procs
          /\ c_run'[1].job_id \in DOMAIN scheduler
          /\ c_run'[1].cmd_args = scheduler[c_run'[1].job_id].args
          /\ c_run'[1].restart_info.policy = "Never"
    /\ (c_pc = "spawned" /\ c_pc' # "spawned") =>
          c_pc' = "idle" /\ procs' = Append(procs, c_run[1])

C24_Runat ==
    /\ [][C24_RunatStep]_vars
    /\ [](\A i \in Runners : procs[i].origin = "cron" =>
                Successors(i) = {} /\ ~RespawnPending(i))

\* C25: for every Runner in the Runner list whose process has exited and whose
\* stdout reader has reached EOF, the Watcher eventually sets the end
\* timestamp.
C25_EndEventuallySet ==
    \A i \in 1..MaxProcs :
        (i \in Runners /\ ~os[procs[i].proc].alive /\ os[procs[i].proc].eof)
            ~> (i \in Runners /\ procs[i].end # NoTs)

\* C27: the Watcher writes the end of a Runner (and takes the restart decision
\* on it) only for a pid that this Runner's own stdout reader sent, and writes
\* it at most once.
C27_PidAttributedToSender ==
    \A i \in Runners :
        /\ Len(procs[i].ends) <= 1
        /\ \A n \in 1..Len(procs[i].ends) : procs[i].ends[n].src = procs[i].proc

\* C28: for every Service job, at most one of its Runners in the Runner list
\* has a process that has not exited.
C28_OneLiveRunnerPerService ==
    \A j \in DOMAIN jobs :
        jobs[j].job_type = "Service" =>
            Cardinality({i \in Runners : procs[i].job_id = j /\ os[procs[i].proc].alive}) <= 1

\* C29: the end of a Runner changes only in a step of the Watcher (the handler,
\* the cron thread and the Logs loop stand still in that step), a Runner whose
\* end is set keeps its state in every step, and a Runner has its end set
\* exactly when the Watcher wrote it, its state then being ExitOk, ExitErr(_)
\* or Unknown.
C29_EndStep ==
    \A i \in Runners :
        /\ procs'[i].end # procs[i].end =>
              /\ (chan # << >> /\ chan' = Tail(chan)) \/ w_pc = "wait"
              /\ UNCHANGED <<handVars, cronVars, logVars>>
        /\ procs[i].end # NoTs => procs'[i].state = procs[i].state

C29_EndOnlyByWatcher ==
    /\ [][C29_EndStep]_vars
    /\ [](\A i \in Runners :
            /\ procs[i].end # NoTs <=> procs[i].ends # << >>
            /\ procs[i].end # NoTs => procs[i].state.tag \in {"ExitOk", "ExitErr", "Unknown"})

\* Ps has sampled every Runner: one has its end set by the Watcher, whose
\* try_wait had failed, another has exited and has no end yet.
C29_Witness ==
    /\ h_req = "Ps" /\ h_pc = "done"
    /\ \E i, j \in Runners :
        /\ procs[i].end # NoTs /\ procs[i].state = Unknown
        /\ procs[j].end = NoTs /\ exited(procs[j].state)

\* C30: a Runner is appended in state Spawned, no update brings a Runner back
\* to Spawned, and a Runner in state ExitOk or ExitErr(c) keeps exactly that
\* state in every later step.
C30_StateStep ==
    /\ \A i \in Runners :
        /\ exited(procs[i].state) => procs'[i].state = procs[i].state
        /\ procs'[i].state # procs[i].state => procs'[i].state # Spawned
    /\ \A i \in (1..Len(procs')) \ Runners : procs'[i].state = Spawned

C31_LinesSinceExact ==
    \A k \in 1..Len(output) : \A c \in NoTs..MaxTime :
        /\ lines_since(output[k], c) = SelectSeq(output[k], LAMBDA l : l.ts > c)
        /\ lines_since_cursor(output[k], c) =
              IF output[k] = << >> THEN c
              ELSE CHOOSE t \in {output[k][n].ts : n \in 1..Len(output[k])} :
                       \A n \in 1..Len(output[k]) : output[k][n].ts <= t

\* Thread t is in Mutex::lock on a mutex that another thread (or t) holds.
LockWaits(t) ==
    /\ lk_todo[t] # << >>
    /\ Head(lk_todo[t]).op = "acq"
    /\ lk_owner[Head(lk_todo[t]).m] # "none"

LockRank(m) == CASE m = "scheduler" -> 1 [] m = "procs" -> 2 [] OTHER -> 3

\* C32: no set of threads each waits for a mutex held by a thread of the set,
\* and a thread that locks a mutex holds only mutexes that come before it in
\* the order scheduler, Runner list, OutputBuffer.
C32_NoDeadlock ==
    /\ \A S \in (SUBSET LockThreads) \ {{}} :
          ~(\A t \in S : LockWaits(t) /\ lk_owner[Head(lk_todo[t]).m] \in S)
    /\ \A t \in LockThreads :
          (lk_todo[t] # << >> /\ Head(lk_todo[t]).op = "acq") =>
              \A m \in Mutexes : lk_owner[m] = t => LockRank(m) < LockRank(Head(lk_todo[t]).m)

\* The longest chain of waits: the cron thread holds the scheduler and waits
\* for the Runner list, which the handler holds in log while it waits for the
\* OutputBuffer a reader holds; Stop waits for nothing yet.
C32_Witness ==
    /\ lk_owner = [m \in Mutexes |->
                     CASE m = "scheduler" -> "cron" [] m = "procs" -> "handler"
                       [] OTHER -> "stdout"]
    /\ LockWaits("cron") /\ LockWaits("handler") /\ LockWaits("watcher")
    /\ LockWaits("stderr")

\* C33: every JobInfo in the job registry has a non-empty args list.
C33_ArgsNonEmpty == \A j \in DOMAIN jobs : jobs[j].args # << >>

C34_Step ==
    (/\ h_pc # "done" /\ h_pc' = "done"
     /\ h_req' \in {"Run", "Runat", "Start"}
     /\ conn' # << >> /\ conn'[Len(conn')].t = "Err")
        => IF h_pc = "idle" THEN jobs' = jobs
           ELSE h_req = "Run" => h_job \notin DOMAIN jobs'

\* C34: a Run, Runat or Start request that replies Err leaves the job registry
\* as it was before the request: when the reply is given in the request's first
\* step the registry is unchanged by it, and when Run replies after the startup
\* window the job it had added is registered no more.
C34_ErrLeavesRegistry == [][C34_Step]_vars

\* C35: a job id has a schedule handle if and only if the job registry holds a
\* job of type Cron under that id.
C35_RegistriesAgree ==
    cronjobs = {j \in DOMAIN jobs : jobs[j].job_type = "Cron"}

C36_Step ==
    \A i \in (Len(procs) + 1)..Len(procs') :
        procs'[i].origin = "cron" => procs'[i].job_id \notin stopped_ok

\* C36: after Stop(j) of a Cron job has replied Ok, the cron thread appends no
\* Runner with job_id j to the Runner list.
C36_NoCronRunnerAfterStop == [][C36_Step]_vars

\* Stop of a Cron job replied Ok after the callback had pushed a Runner of
\* the job, which Stop terminated, and the cron thread is between two ticks.
C36_Witness ==
    /\ c_pc = "idle"
    /\ \E i \in 1..Len(procs) :
          /\ procs[i].origin = "cron" /\ procs[i].job_id \in stopped_ok
          /\ procs[i].user_terminated

\* C37: the job registry holds at most one job of type Service for any service
\* name.
C37_OneJobPerService ==
    \A service \in Services : Cardinality(ServiceJobs(jobs, service)) <= 1

\* Start of a service whose job was registered by an earlier request: the job
\* is reused, its process runs, and the reply names no job.
C37_Witness ==
    /\ h_pc = "done" /\ h_req = "Start"
    /\ conn[1] = JobsStarted(<< >>)
    /\ h_job = find_job(jobs, "web") /\ h_job # 0

C38_Step ==
    (h_req = "Up" /\ h_pc # "done" /\ h_pc' = "done") =>
        LET reply == conn'[Len(conn')]
            ids == {reply.ids[m] : m \in 1..Len(reply.ids)}
        IN /\ \A n \in 1..Len(h_ids') : h_ids'[n] \in ids
           /\ h_pc = "startup" => h_job \in ids

\* C38: the reply to Up names every job for which the request appended a
\* Runner: the ids up had collected from the members started so far, and the
\* job of the member whose startup check ends the request.
C38_UpReportsStarted == [][C38_Step]_vars

C39_Step ==
    (h_pc = "idle" /\ faults' > faults /\ h_req' = h_req) => h_pc' = "idle"

\* C39: an error returned by accept does not terminate the listener: after the
\* step in which the error is passed to the callback the listener thread is
\* in the accept loop, ready for the next connection.
C39_AcceptErrorSurvived == [][C39_Step]_vars

\* C40: the doubling of wait_time in restart_infos never overflows the 64-bit
\* unsigned range, however many short failing runs follow each other: no call
\* panics on overflow and no product is wrapped around 2^64.
C40_BackoffBounded == b_pc = "ok" /\ ~b_wrapped

====
